---- MODULE Spec2Model ----
(***************************************************************************)
(* Model of the PL/I preprocessor core of AquaQualis/PLI: the expression   *)
(* parser and validators of pli_preprocessor/src/modules/parser.rs, the    *)
(* directive validators of pli_tokenizer/src/modules/validator.rs and      *)
(* pli_preprocessor/src/modules/conditional.rs, and the lexers of          *)
(* pli_tokenizer/src/modules/tokenizer.rs and                              *)
(* pli_preprocessor/src/modules/tokenizer/.                                *)
(*                                                                         *)
(* A character is a one-character string, a text (Rust String / &str) is a *)
(* sequence of characters, a token sequence (Vec<String>) is a sequence of *)
(* texts.  Every function of the source is an operator computed the way    *)
(* the code computes it; each specification draws the inputs in its        *)
(* initial predicate and has one action per function call.                 *)
(***************************************************************************)
EXTENDS Integers, Sequences, FiniteSets, TLC

VARIABLES
    tokens,     \* the token sequence handed to the parser / the validators
    line,       \* the input line handed to the lexer
    pe_result,  \* result of parse_expression(tokens)
    ve_result,  \* result of validate_expression(tokens)
    cs_result,  \* result of parse_control_structure(tokens)
    vs_result,  \* result of validate_syntax(tokens)
    vc_result,  \* result of validate_conditional_structure(tokens)
    tk_result,  \* tokens returned by tokenize_pli(line) (pli_tokenizer)
    sl_result,  \* outcome of handle_string_literal on line (pli_preprocessor)
    te_result,  \* outcome of has_tokenizer_error on the scanner's tokens
    lx,         \* tokenize_pli(line) run one loop iteration at a time
    tl_result,  \* tokens returned by tokenize_pli(line) (tokenizer_logic.rs)
    ev_result,  \* outcome of evaluate_expression(line)
    eo,         \* one call of evaluate_operator: operands, operator, outcome
    inv         \* two invocations of core operations, run step by step

vars == <<tokens, line, pe_result, ve_result, cs_result, vs_result, vc_result,
          tk_result, sl_result, te_result, lx, tl_result, ev_result, eo, inv>>

----------------------------------------------------------------------------
(* Bounds of the checked instances.                                        *)

\* longest token sequence drawn exhaustively for the expression functions
MaxExprLen == 4
\* most operators in an operand-operator-operand expression
MaxOps == 4
\* longest token sequence drawn exhaustively for the block validators
MaxBlockLen == 4
\* longest input line drawn for the lexer
MaxLineLen == 4

----------------------------------------------------------------------------
(* Texts and characters.                                                   *)

UpperSeq == <<"A","B","C","D","E","F","G","H","I","J","K","L","M",
              "N","O","P","Q","R","S","T","U","V","W","X","Y","Z">>
LowerSeq == <<"a","b","c","d","e","f","g","h","i","j","k","l","m",
              "n","o","p","q","r","s","t","u","v","w","x","y","z">>
DigitSeq == <<"0","1","2","3","4","5","6","7","8","9">>

Range(s) == {s[i] : i \in 1..Len(s)}

Front(s) == SubSeq(s, 1, Len(s) - 1)

Last(s) == s[Len(s)]

BoundedSeqs(S, n) == UNION {[1..k -> S] : k \in 0..n}

\* char::is_alphanumeric
is_alphanumeric(c) == c \in Range(UpperSeq) \cup Range(LowerSeq) \cup Range(DigitSeq)

\* char::is_whitespace
is_whitespace(c) == c \in {" ", "\t"}

\* char::to_uppercase on one character
char_to_uppercase(c) ==
    IF c \in Range(LowerSeq)
    THEN UpperSeq[CHOOSE i \in 1..Len(LowerSeq) : LowerSeq[i] = c]
    ELSE c

\* str::to_uppercase
to_uppercase(s) == [i \in 1..Len(s) |-> char_to_uppercase(s[i])]

\* t.chars().all(char::is_alphanumeric); true of the empty text
all_alphanumeric(t) == \A i \in 1..Len(t) : is_alphanumeric(t[i])

\* str::starts_with / str::ends_with for a one-character pattern
starts_with(s, c) == Len(s) > 0 /\ s[1] = c
ends_with(s, c) == Len(s) > 0 /\ s[Len(s)] = c

\* The token spellings used below.
tA == <<"A">>
tB == <<"B">>
tC == <<"C">>
tX == <<"X">>
PLUS == <<"+">>
MINUS == <<"-">>
STAR == <<"*">>
SLASH == <<"/">>
tAND == <<"A","N","D">>
tOR == <<"O","R">>
LPAREN == <<"(">>
RPAREN == <<")">>
AMP == <<"&">>
tDO == <<"D","O">>
tEND == <<"E","N","D">>
tIF == <<"%","I","F">>
tENDIF == <<"%","E","N","D","I","F">>
tTHEN == <<"%","T","H","E","N">>
tELSE == <<"%","E","L","S","E">>
tMACRO == <<"%","M","A","C","R","O">>
tif == <<"%","i","f">>

----------------------------------------------------------------------------
(* Result<T, String>.  val is the Ok payload (the postfix sequence, <<>>   *)
(* for Ok(())), err the error text and tok the token formatted into it.    *)

NoResult == [tag |-> "None", val |-> <<>>, err |-> "", tok |-> <<>>]
Ok(v) == [tag |-> "Ok", val |-> v, err |-> "", tok |-> <<>>]
Err(msg, t) == [tag |-> "Err", val |-> <<>>, err |-> msg, tok |-> t]

is_ok(r) == r.tag = "Ok"
is_err(r) == r.tag = "Err"

----------------------------------------------------------------------------
(* parser.rs: parse_expression.                                            *)

\* the keys of the precedence HashMap
precedence_keys == {STAR, SLASH, PLUS, MINUS, tAND, tOR}

\* the precedence table with the ranks of * / and + - exchanged
precedence_wrong(t) ==
    IF t \in {STAR, SLASH} THEN 2
    ELSE IF t \in {PLUS, MINUS} THEN 3
    ELSE IF t \in {tAND, tOR} THEN 1
    ELSE 0

\* precedence.get(t); None is 0, which orders below every Some(p) as
\* Option's ordering does
precedence(t) ==
    IF t \in {STAR, SLASH} THEN 3
    ELSE IF t \in {PLUS, MINUS} THEN 2
    ELSE IF t \in {tAND, tOR} THEN 1
    ELSE 0

\* the operator-arm loop with > in place of >=
RECURSIVE pop_higher_strict(_, _, _)
pop_higher_strict(output, operators, t) ==
    IF operators # <<>> /\ precedence(Last(operators)) > precedence(t)
    THEN pop_higher_strict(Append(output, Last(operators)), Front(operators), t)
    ELSE [output |-> output, operators |-> operators]

\* the `while let Some(op) = operators.last()` loop of the operator arm
RECURSIVE pop_higher(_, _, _)
pop_higher(output, operators, t) ==
    IF operators # <<>> /\ precedence(Last(operators)) >= precedence(t)
    THEN pop_higher(Append(output, Last(operators)), Front(operators), t)
    ELSE [output |-> output, operators |-> operators]

\* the ")" arm loop without `output.push(op)`
RECURSIVE pop_to_paren_dropping(_, _)
pop_to_paren_dropping(output, operators) ==
    IF operators = <<>>
    THEN [output |-> output, operators |-> operators]
    ELSE IF Last(operators) = LPAREN
         THEN [output |-> output, operators |-> Front(operators)]
         ELSE pop_to_paren_dropping(output, Front(operators))

\* the `while let Some(op) = operators.pop()` loop of the ")" arm: it ends
\* at the first "(" or when the stack is empty
RECURSIVE pop_to_paren(_, _)
pop_to_paren(output, operators) ==
    IF operators = <<>>
    THEN [output |-> output, operators |-> operators]
    ELSE IF Last(operators) = LPAREN
         THEN [output |-> output, operators |-> Front(operators)]
         ELSE pop_to_paren(Append(output, Last(operators)), Front(operators))

\* the final loop without its parenthesis test
RECURSIVE pop_remaining_unchecked(_, _)
pop_remaining_unchecked(output, operators) ==
    IF operators = <<>>
    THEN Ok(output)
    ELSE pop_remaining_unchecked(Append(output, Last(operators)), Front(operators))

\* the final `while let Some(op) = operators.pop()` loop
RECURSIVE pop_remaining(_, _)
pop_remaining(output, operators) ==
    IF operators = <<>>
    THEN Ok(output)
    ELSE IF Last(operators) = LPAREN \/ Last(operators) = RPAREN
         THEN Err("Mismatched parentheses in expression.", <<>>)
         ELSE pop_remaining(Append(output, Last(operators)), Front(operators))

\* the `for token in tokens` loop from token i on
RECURSIVE parse_expression_from(_, _, _, _)
parse_expression_from(toks, i, output, operators) ==
    IF i > Len(toks)
    THEN pop_remaining(output, operators)
    ELSE LET t == toks[i] IN
         IF all_alphanumeric(t)
         THEN parse_expression_from(toks, i + 1, Append(output, t), operators)
         ELSE IF t \in precedence_keys
         THEN LET p == pop_higher(output, operators, t) IN
              parse_expression_from(toks, i + 1, p.output, Append(p.operators, t))
         ELSE IF t = LPAREN
         THEN parse_expression_from(toks, i + 1, output, Append(operators, t))
         ELSE IF t = RPAREN
         THEN LET p == pop_to_paren(output, operators) IN
              parse_expression_from(toks, i + 1, p.output, p.operators)
         ELSE Err("Invalid token in expression", t)

parse_expression(toks) == parse_expression_from(toks, 1, <<>>, <<>>)

----------------------------------------------------------------------------
(* parser.rs: validate_expression.                                         *)

\* an operator list without the word operators
valid_operators_arith == {PLUS, MINUS, STAR, SLASH}

valid_operators == {PLUS, MINUS, STAR, SLASH, tAND, tOR}

\* a ")" arm that never reports
pop_is_none_never(parentheses_stack) == FALSE

\* `parentheses_stack.pop().is_none()`
pop_is_none(parentheses_stack) == parentheses_stack = <<>>

\* the `for token in tokens` loop from token i on; last_token is
\* Option<&str>: <<>> for None, <<t>> for Some(t)
RECURSIVE validate_expression_from(_, _, _, _)
validate_expression_from(toks, i, parentheses_stack, last_token) ==
    IF i > Len(toks)
    THEN IF parentheses_stack # <<>>
         THEN Err("Unmatched opening parenthesis", <<>>)
         ELSE Ok(<<>>)
    ELSE LET t == toks[i] IN
         IF t = LPAREN
         THEN validate_expression_from(toks, i + 1, Append(parentheses_stack, "("), <<t>>)
         ELSE IF t = RPAREN
         THEN IF pop_is_none(parentheses_stack)
              THEN Err("Unmatched closing parenthesis", <<>>)
              ELSE validate_expression_from(toks, i + 1, Front(parentheses_stack), <<t>>)
         ELSE IF t \in valid_operators
         THEN IF last_token # <<>> /\ (last_token[1] \in valid_operators \/ last_token[1] = LPAREN)
              THEN Err("Invalid operator placement", t)
              ELSE validate_expression_from(toks, i + 1, parentheses_stack, <<t>>)
         ELSE IF all_alphanumeric(t)
         THEN validate_expression_from(toks, i + 1, parentheses_stack, <<t>>)
         ELSE Err("Invalid token in expression", t)

\* validate_expression with the final parenthesis_stack check left out
RECURSIVE validate_expression_noend(_, _, _, _)
validate_expression_noend(toks, i, parentheses_stack, last_token) ==
    IF i > Len(toks)
    THEN Ok(<<>>)
    ELSE LET t == toks[i] IN
         IF t = LPAREN
         THEN validate_expression_noend(toks, i + 1, Append(parentheses_stack, "("), <<t>>)
         ELSE IF t = RPAREN
         THEN IF pop_is_none(parentheses_stack)
              THEN Err("Unmatched closing parenthesis", <<>>)
              ELSE validate_expression_noend(toks, i + 1, Front(parentheses_stack), <<t>>)
         ELSE IF t \in valid_operators
         THEN IF last_token # <<>> /\ (last_token[1] \in valid_operators \/ last_token[1] = LPAREN)
              THEN Err("Invalid operator placement", t)
              ELSE validate_expression_noend(toks, i + 1, parentheses_stack, <<t>>)
         ELSE IF all_alphanumeric(t)
         THEN validate_expression_noend(toks, i + 1, parentheses_stack, <<t>>)
         ELSE Err("Invalid token in expression", t)

validate_expression_unchecked_end(toks) == validate_expression_noend(toks, 1, <<>>, <<>>)

validate_expression(toks) == validate_expression_from(toks, 1, <<>>, <<>>)

----------------------------------------------------------------------------
(* The expression specification: one token sequence, parsed and validated. *)

ExprAlphabet == {tA, tB, PLUS, STAR, tAND, LPAREN, RPAREN, AMP}

\* the operands of the operand-operator-operand inputs, by position
OperandSeq == <<tA, tB, tC, tX, <<"Y">>, <<"Z">>, <<"1">>, <<"2">>>>

Operands == Range(OperandSeq)

ArithOps == {PLUS, MINUS, STAR, SLASH}

\* operand (operator operand)^k, every choice of the k operators
AlternatingSeqs(k) ==
    {[i \in 1..(2 * k + 1) |-> IF i % 2 = 1 THEN OperandSeq[(i + 1) \div 2] ELSE o[i \div 2]] :
        o \in [1..k -> ArithOps]}

ExprExamples ==
    {<<tA, PLUS, tB, RPAREN>>,
     <<tA, tOR, tB, PLUS, tC>>,
     <<tA, PLUS, tB, STAR, tC>>,
     <<LPAREN, tA, PLUS, tB, RPAREN, STAR, tC>>,
     <<LPAREN, tA, PLUS, tB>>,
     <<tA, MINUS, SLASH, tB>>,
     <<LPAREN, tOR, tB, RPAREN>>,
     <<LPAREN, LPAREN, tA, MINUS, tB, RPAREN>>,
     <<LPAREN, tA, MINUS, tB, MINUS, tC, RPAREN>>,
     <<tA, SLASH, LPAREN, tB, STAR, tC, RPAREN>>}

ExprInputs ==
    BoundedSeqs(ExprAlphabet, MaxExprLen)
    \cup UNION {AlternatingSeqs(k) : k \in 0..MaxOps}
    \cup ExprExamples

\* the values of the lexer variables before the call
NoTokens == [called |-> FALSE, tokens |-> <<>>]
NoScan == [called |-> FALSE, tokens |-> <<>>, current_token |-> <<>>,
           pos |-> 0, unmatched |-> FALSE]
NoFlag == [called |-> FALSE, value |-> FALSE]
NoLexer == [pc |-> "idle", pos |-> 0, tokens |-> <<>>, current_token |-> <<>>,
            in_string |-> FALSE, consumed |-> <<>>]
NoOutcome == [tag |-> "None", num |-> 0, err |-> ""]
NoCall == [a |-> 0, b |-> 0, operator |-> <<>>, result |-> NoOutcome]
NoInvocations == <<>>

Init ==
    /\ tokens \in ExprInputs
    /\ line = <<>>
    /\ pe_result = NoResult
    /\ ve_result = NoResult
    /\ cs_result = NoResult
    /\ vs_result = NoResult
    /\ vc_result = NoResult
    /\ tk_result = NoTokens
    /\ sl_result = NoScan
    /\ te_result = NoFlag
    /\ lx = NoLexer
    /\ tl_result = NoTokens
    /\ ev_result = NoOutcome
    /\ eo = NoCall
    /\ inv = NoInvocations

ParseExpression ==
    /\ pe_result = NoResult
    /\ pe_result' = parse_expression(tokens)
    /\ UNCHANGED <<tokens, line, ve_result, cs_result, vs_result, vc_result,
                   tk_result, sl_result, te_result, lx,
                   tl_result, ev_result, eo, inv>>

ValidateExpression ==
    /\ ve_result = NoResult
    /\ ve_result' = validate_expression(tokens)
    /\ UNCHANGED <<tokens, line, pe_result, cs_result, vs_result, vc_result,
                   tk_result, sl_result, te_result, lx,
                   tl_result, ev_result, eo, inv>>

Next == ParseExpression \/ ValidateExpression

Spec == Init /\ [][Next]_vars

----------------------------------------------------------------------------
(* Properties of the expression functions.                                 *)

\* number of occurrences of token t in toks[a..b]
Cnt(toks, a, b, t) == Cardinality({k \in a..b : toks[k] = t})

\* toks[j] is a ")" that closes no earlier "("
UnmatchedCloseAt(toks, j) ==
    /\ toks[j] = RPAREN
    /\ \A i \in 1..j : Cnt(toks, i, j, RPAREN) > Cnt(toks, i, j, LPAREN)

\* toks[i] is a "(" that no later ")" closes
UnclosedOpenAt(toks, i) ==
    /\ toks[i] = LPAREN
    /\ \A j \in i..Len(toks) : Cnt(toks, i, j, LPAREN) > Cnt(toks, i, j, RPAREN)

\* a token the expression grammar knows: operand, operator or parenthesis
IsExprToken(t) ==
    \/ all_alphanumeric(t)
    \/ t \in {PLUS, MINUS, STAR, SLASH, tAND, tOR, LPAREN, RPAREN}

BothExprCalled == pe_result # NoResult /\ ve_result # NoResult

\* C1 (as stated): parse_expression returns an error if and only if
\* validate_expression returns an error for the same token sequence.
C1_ErrorIff ==
    BothExprCalled => (is_err(pe_result) <=> is_err(ve_result))

\* C1 (amended): whenever parse_expression returns an error,
\* validate_expression returns an error for the same token sequence.
C1_ParseErrImpliesValidateErr ==
    BothExprCalled /\ is_err(pe_result) => is_err(ve_result)

C1_Witness ==
    /\ BothExprCalled
    /\ is_err(pe_result)
    /\ is_err(ve_result)
    /\ \E i \in 1..Len(tokens) : UnclosedOpenAt(tokens, i)

\* C2: parse_expression returns an error, never Ok, for every token
\* sequence in which a ")" occurs with no unmatched "(" before it.
C2_UnmatchedCloseIsError ==
    /\ pe_result # NoResult
    /\ \E j \in 1..Len(tokens) : UnmatchedCloseAt(tokens, j)
    => is_err(pe_result)

\* C3: AND and OR are binary operators of precedence 1: [A, AND, B] yields
\* [A, B, AND] and [A, OR, B, +, C] yields [A, B, C, +, OR].
C3_AndOrAreOperators ==
    pe_result # NoResult =>
        /\ tokens = <<tA, tAND, tB>> => pe_result = Ok(<<tA, tB, tAND>>)
        /\ tokens = <<tA, tOR, tB, PLUS, tC>>
              => pe_result = Ok(<<tA, tB, tC, PLUS, tOR>>)

\* operand (operator operand)* over + - * /
IsAlternating(toks) ==
    /\ Len(toks) % 2 = 1
    /\ \A i \in 1..Len(toks) :
          IF i % 2 = 1 THEN toks[i] \in Operands ELSE toks[i] \in ArithOps

\* postfix form of a product  o1 (*|/) o2 (*|/) ...  read left to right
RECURSIVE RefTerm(_)
RefTerm(s) ==
    IF Len(s) = 1 THEN s
    ELSE RefTerm(SubSeq(s, 1, Len(s) - 2)) \o <<s[Len(s)]>> \o <<s[Len(s) - 1]>>

\* postfix form of a sum of products, by the grammar
\*   expr ::= term ((+|-) term)*     term ::= operand ((*|/) operand)*
RECURSIVE RefPostfix(_)
RefPostfix(s) ==
    LET adds == {p \in 1..Len(s) : s[p] \in {PLUS, MINUS}} IN
    IF adds = {} THEN RefTerm(s)
    ELSE LET p == CHOOSE q \in adds : \A r \in adds : r <= q IN
         RefPostfix(SubSeq(s, 1, p - 1)) \o RefTerm(SubSeq(s, p + 1, Len(s))) \o <<s[p]>>

\* C4: parse_expression respects precedence and parentheses: A + B * C
\* gives A B C * +, (A + B) * C gives A B + C *, and every
\* operand-operator-operand input over + - * / gives the postfix form in
\* which * and / bind tighter than + and -.
C4_Precedence ==
    pe_result # NoResult =>
        /\ tokens = <<tA, PLUS, tB, STAR, tC>>
              => pe_result = Ok(<<tA, tB, tC, STAR, PLUS>>)
        /\ tokens = <<LPAREN, tA, PLUS, tB, RPAREN, STAR, tC>>
              => pe_result = Ok(<<tA, tB, PLUS, tC, STAR>>)
        /\ IsAlternating(tokens) => pe_result = Ok(RefPostfix(tokens))

C4_Witness ==
    /\ tokens = <<tA, PLUS, tB, STAR, tC>>
    /\ pe_result = Ok(<<tA, tB, tC, STAR, PLUS>>)

\* C5 (as stated): parse_expression returns a mismatched-parentheses error
\* for every token sequence in which some "(" is never closed.
C5_UnclosedIsMismatched ==
    /\ pe_result # NoResult
    /\ \E i \in 1..Len(tokens) : UnclosedOpenAt(tokens, i)
    => pe_result = Err("Mismatched parentheses in expression.", <<>>)

\* C5 (amended): for every token sequence in which some "(" is never
\* closed parse_expression returns an error and no postfix output; the
\* error is the mismatched-parentheses one when every token is an operand,
\* an operator or a parenthesis, and the invalid-token one otherwise.
C5_UnclosedIsError ==
    /\ pe_result # NoResult
    /\ \E i \in 1..Len(tokens) : UnclosedOpenAt(tokens, i)
    => /\ is_err(pe_result)
       /\ pe_result.val = <<>>
       /\ IF \A k \in 1..Len(tokens) : IsExprToken(tokens[k])
          THEN pe_result.err = "Mismatched parentheses in expression."
          ELSE pe_result.err = "Invalid token in expression"

C5_Witness ==
    /\ tokens = <<LPAREN, tA, PLUS, tB>>
    /\ pe_result = Err("Mismatched parentheses in expression.", <<>>)

----------------------------------------------------------------------------
(* parser.rs: parse_control_structure.                                     *)

\* an END arm that never reports
end_unmatched_never(stack) == FALSE

\* `stack.pop() != Some("DO")`: the stack is empty or its top is not DO
end_unmatched(stack) == stack = <<>> \/ Last(stack) # tDO

\* the `for token in tokens` loop from token i on, then the final check
RECURSIVE parse_control_structure_from(_, _, _)
parse_control_structure_from(toks, i, stack) ==
    IF i > Len(toks)
    THEN IF stack # <<>>
         THEN Err("Unclosed DO", <<>>)
         ELSE Ok(<<>>)
    ELSE LET t == toks[i] IN
         IF t = tDO
         THEN parse_control_structure_from(toks, i + 1, Append(stack, t))
         ELSE IF t = tEND
         THEN IF end_unmatched(stack)
              THEN Err("Unmatched END", <<>>)
              ELSE parse_control_structure_from(toks, i + 1, Front(stack))
         ELSE parse_control_structure_from(toks, i + 1, stack)

parse_control_structure(toks) == parse_control_structure_from(toks, 1, <<>>)

----------------------------------------------------------------------------
(* validator.rs: validate_syntax and is_valid_directive.                   *)

valid_directives ==
    {tIF, tENDIF, tELSE, tTHEN, <<"%","D","O">>, <<"%","E","N","D">>,
     <<"%","S","W","I","T","C","H">>, <<"%","C","A","S","E">>,
     <<"%","D","E","F","A","U","L","T">>}

is_valid_directive(directive) == to_uppercase(directive) \in valid_directives

\* an %ENDIF arm that never reports
endif_unmatched_never(stack) == FALSE

\* `stack.pop() != Some("%IF")`
endif_unmatched(stack) == stack = <<>> \/ Last(stack) # tIF

\* a %THEN arm that never reports
then_unmatched_never(stack) == FALSE

\* `stack.last() != Some(&"%IF")`
then_unmatched(stack) == stack = <<>> \/ Last(stack) # tIF

\* an emptiness test that never reports
is_empty_never(toks) == FALSE

\* `tokens.is_empty()`
is_empty(toks) == Len(toks) = 0

\* the `for token in tokens` loop from token i on, then the final check
RECURSIVE validate_syntax_from(_, _, _)
validate_syntax_from(toks, i, stack) ==
    IF i > Len(toks)
    THEN IF stack # <<>>
         THEN Err("Unmatched %IF found", <<>>)
         ELSE Ok(<<>>)
    ELSE LET t == toks[i] IN
         IF t = tIF
         THEN validate_syntax_from(toks, i + 1, Append(stack, tIF))
         ELSE IF t = tENDIF
         THEN IF endif_unmatched(stack)
              THEN Err("Unmatched %ENDIF found", <<>>)
              ELSE validate_syntax_from(toks, i + 1, Front(stack))
         ELSE IF t = tTHEN
         THEN IF then_unmatched(stack)
              THEN Err("%THEN without matching %IF", <<>>)
              ELSE validate_syntax_from(toks, i + 1, stack)
         ELSE IF starts_with(t, "%") /\ ~is_valid_directive(t)
         THEN Err("Invalid directive", t)
         ELSE validate_syntax_from(toks, i + 1, stack)

validate_syntax(toks) ==
    IF is_empty(toks)
    THEN Err("Empty token line", <<>>)
    ELSE validate_syntax_from(toks, 1, <<>>)

----------------------------------------------------------------------------
(* conditional.rs: validate_conditional_structure.                         *)

\* the `for token in tokens` loop from token i on, then the final check
RECURSIVE validate_conditional_structure_from(_, _, _)
validate_conditional_structure_from(toks, i, nesting_level) ==
    IF i > Len(toks)
    THEN IF nesting_level # 0
         THEN Err("Unmatched %IF directive", <<>>)
         ELSE Ok(<<>>)
    ELSE IF toks[i] = tIF
         THEN validate_conditional_structure_from(toks, i + 1, nesting_level + 1)
         ELSE IF toks[i] = tENDIF
         THEN IF nesting_level = 0
              THEN Err("Unmatched %ENDIF directive", <<>>)
              ELSE validate_conditional_structure_from(toks, i + 1, nesting_level - 1)
         ELSE validate_conditional_structure_from(toks, i + 1, nesting_level)

\* a validator that only compares the numbers of %IF and %ENDIF
validate_conditional_structure_counting(toks) ==
    IF Cardinality({k \in 1..Len(toks) : toks[k] = tIF})
         = Cardinality({k \in 1..Len(toks) : toks[k] = tENDIF})
    THEN Ok(<<>>)
    ELSE Err("Unmatched %IF directive", <<>>)

validate_conditional_structure(toks) == validate_conditional_structure_from(toks, 1, 0)

----------------------------------------------------------------------------
(* The validator specification: one token sequence, handed to each of the  *)
(* four validators.                                                        *)

BlockAlphabet == {tDO, tEND, tIF, tENDIF, tTHEN, tMACRO, tif}

BlockExamples ==
    {<<tDO, tX, tDO, tX, tEND, tEND>>,
     <<tIF, tX, tTHEN, tIF, tX, tTHEN, tENDIF, tENDIF>>,
     <<tIF, tENDIF, tENDIF>>}

BlockInputs == BoundedSeqs(BlockAlphabet, MaxBlockLen) \cup BlockExamples

InitValidate ==
    /\ tokens \in BlockInputs
    /\ line = <<>>
    /\ pe_result = NoResult
    /\ ve_result = NoResult
    /\ cs_result = NoResult
    /\ vs_result = NoResult
    /\ vc_result = NoResult
    /\ tk_result = NoTokens
    /\ sl_result = NoScan
    /\ te_result = NoFlag
    /\ lx = NoLexer
    /\ tl_result = NoTokens
    /\ ev_result = NoOutcome
    /\ eo = NoCall
    /\ inv = NoInvocations

ParseControlStructure ==
    /\ cs_result = NoResult
    /\ cs_result' = parse_control_structure(tokens)
    /\ UNCHANGED <<tokens, line, pe_result, ve_result, vs_result, vc_result,
                   tk_result, sl_result, te_result, lx,
                   tl_result, ev_result, eo, inv>>

ValidateSyntax ==
    /\ vs_result = NoResult
    /\ vs_result' = validate_syntax(tokens)
    /\ UNCHANGED <<tokens, line, pe_result, ve_result, cs_result, vc_result,
                   tk_result, sl_result, te_result, lx,
                   tl_result, ev_result, eo, inv>>

ValidateConditionalStructure ==
    /\ vc_result = NoResult
    /\ vc_result' = validate_conditional_structure(tokens)
    /\ UNCHANGED <<tokens, line, pe_result, ve_result, cs_result, vs_result,
                   tk_result, sl_result, te_result, lx,
                   tl_result, ev_result, eo, inv>>

NextValidate ==
    \/ ParseControlStructure
    \/ ValidateSyntax
    \/ ValidateConditionalStructure
    \/ ValidateExpression

SpecValidate == InitValidate /\ [][NextValidate]_vars

----------------------------------------------------------------------------
(* Properties of the validators.                                           *)

\* the open/close tokens of toks, all others ignored, nest properly: no
\* prefix closes more than it opens and the whole sequence closes them all
ProperlyNested(toks, open, close) ==
    /\ \A j \in 1..Len(toks) : Cnt(toks, 1, j, close) <= Cnt(toks, 1, j, open)
    /\ Cnt(toks, 1, Len(toks), close) = Cnt(toks, 1, Len(toks), open)

\* some prefix of toks closes more than it opens
ClosesTooMany(toks, open, close) ==
    \E j \in 1..Len(toks) : Cnt(toks, 1, j, close) > Cnt(toks, 1, j, open)

\* C6: parse_control_structure returns Ok iff the DO and END tokens, all
\* others ignored, are properly nested; it returns "Unmatched END" when an
\* END arrives with no open DO and "Unclosed DO" when the end is reached
\* with a DO still open.
C6_DoEndBalance ==
    cs_result # NoResult =>
        /\ is_ok(cs_result) <=> ProperlyNested(tokens, tDO, tEND)
        /\ ClosesTooMany(tokens, tDO, tEND)
              => cs_result = Err("Unmatched END", <<>>)
        /\ (~ClosesTooMany(tokens, tDO, tEND)
              /\ Cnt(tokens, 1, Len(tokens), tDO) > Cnt(tokens, 1, Len(tokens), tEND))
              => cs_result = Err("Unclosed DO", <<>>)

C6_Witness ==
    /\ tokens = <<tDO, tX, tDO, tX, tEND, tEND>>
    /\ cs_result = Ok(<<>>)

\* C7 (as stated): validate_syntax returns success iff the %IF and %ENDIF
\* tokens of the sequence are properly nested.
C7_IfEndifBalanceIff ==
    vs_result # NoResult =>
        (is_ok(vs_result) <=> ProperlyNested(tokens, tIF, tENDIF))

\* C7 (amended): validate_syntax returns success iff the sequence is not
\* empty, its %IF and %ENDIF tokens are properly nested, every %THEN stands
\* inside an open %IF, and every other token starting with % is accepted by
\* is_valid_directive.
C7_IfEndifBalance ==
    vs_result # NoResult =>
        (is_ok(vs_result) <=>
            /\ tokens # <<>>
            /\ ProperlyNested(tokens, tIF, tENDIF)
            /\ \A j \in 1..Len(tokens) :
                  tokens[j] = tTHEN
                     => Cnt(tokens, 1, j, tIF) > Cnt(tokens, 1, j, tENDIF)
            /\ \A j \in 1..Len(tokens) :
                  tokens[j][1] = "%" /\ tokens[j] \notin {tIF, tENDIF, tTHEN}
                     => to_uppercase(tokens[j]) \in valid_directives)

C7_Witness ==
    /\ tokens = <<tIF, tX, tTHEN, tIF, tX, tTHEN, tENDIF, tENDIF>>
    /\ vs_result = Ok(<<>>)

AllValidatorsCalled ==
    /\ vs_result # NoResult
    /\ cs_result # NoResult
    /\ vc_result # NoResult
    /\ ve_result # NoResult

\* C8 (as stated): validate_syntax, parse_control_structure,
\* validate_conditional_structure and validate_expression each return Err
\* for the empty token sequence.
C8_EmptyIsErrorEverywhere ==
    AllValidatorsCalled /\ tokens = <<>> =>
        /\ is_err(vs_result)
        /\ is_err(cs_result)
        /\ is_err(vc_result)
        /\ is_err(ve_result)

\* C8 (amended): for the empty token sequence validate_syntax returns the
\* error "Empty token line", while parse_control_structure,
\* validate_conditional_structure and validate_expression return Ok.
C8_EmptyIsErrorInValidateSyntax ==
    tokens = <<>> =>
        /\ vs_result # NoResult => vs_result = Err("Empty token line", <<>>)
        /\ cs_result # NoResult => is_ok(cs_result)
        /\ vc_result # NoResult => is_ok(vc_result)
        /\ ve_result # NoResult => is_ok(ve_result)

C8_Witness ==
    /\ tokens = <<>>
    /\ AllValidatorsCalled
    /\ is_err(vs_result)

----------------------------------------------------------------------------
(* pli_tokenizer/src/modules/tokenizer.rs: the lexer.                      *)

\* Token::new; directive_category is "None" or the DirectiveCategory
Token(value, category, directive_category) ==
    [value |-> value, category |-> category, directive_category |-> directive_category]

\* a classification that knows no Other and gives unknown spellings no kind
get_directive_category_optional(directive) ==
    IF directive \in {tIF, tTHEN, tELSE, tENDIF} THEN "ControlFlow"
    ELSE IF directive \in {tMACRO, <<"%","I","N","C","L","U","D","E">>} THEN "MacroHandling"
    ELSE IF directive \in {<<"%","S","W","I","T","C","H">>, <<"%","C","A","S","E">>,
                           <<"%","E","V","A","L","U","A","T","E">>} THEN "Conditional"
    ELSE IF directive = <<"%","C","O","M","M","E","N","T">> THEN "Comment"
    ELSE "None"

get_directive_category(directive) ==
    IF directive \in {tIF, tTHEN, tELSE, tENDIF} THEN "ControlFlow"
    ELSE IF directive \in {tMACRO, <<"%","I","N","C","L","U","D","E">>} THEN "MacroHandling"
    ELSE IF directive \in {<<"%","S","W","I","T","C","H">>, <<"%","C","A","S","E">>,
                           <<"%","E","V","A","L","U","A","T","E">>} THEN "Conditional"
    ELSE IF directive = <<"%","C","O","M","M","E","N","T">> THEN "Comment"
    ELSE "Other"

\* str::trim
RECURSIVE trim_start(_)
trim_start(s) == IF s # <<>> /\ is_whitespace(Head(s)) THEN trim_start(Tail(s)) ELSE s

RECURSIVE trim_end(_)
trim_end(s) == IF s # <<>> /\ is_whitespace(Last(s)) THEN trim_end(Front(s)) ELSE s

trim(s) == trim_end(trim_start(s))

\* next_char.is_alphanumeric() || next_char == '_'
is_identifier_char(c) == is_alphanumeric(c) \/ c = "_"

\* finalize_token without the uppercasing
finalize_token_raw(current_token, toks) ==
    IF current_token # <<>>
    THEN Append(toks, [value |-> current_token, category |-> "Identifier",
                       directive_category |-> "None"])
    ELSE toks

\* finalize_token: the tokens after the call (current_token is cleared by
\* the caller's state update)
finalize_token(current_token, toks) ==
    IF current_token # <<>>
    THEN Append(toks, Token(to_uppercase(current_token), "Identifier", "None"))
    ELSE toks

\* the `while let Some(&next_char) = chars.peek()` loop of
\* handle_string_literal: every character up to and including the next quote
RECURSIVE scan_to_quote(_, _, _)
scan_to_quote(input, i, current_token) ==
    IF i > Len(input)
    THEN [pos |-> i, current_token |-> current_token, in_string |-> TRUE]
    ELSE IF input[i] = "'"
         THEN [pos |-> i + 1, current_token |-> Append(current_token, input[i]),
               in_string |-> FALSE]
         ELSE scan_to_quote(input, i + 1, Append(current_token, input[i]))

\* handle_string_literal with the literal folded to upper case
handle_string_literal_upper(current_char, input, i, current_token, toks) ==
    LET r == scan_to_quote(input, i, Append(current_token, current_char)) IN
    [pos |-> r.pos, in_string |-> r.in_string, current_token |-> <<>>,
     tokens |-> Append(toks, Token(to_uppercase(trim(r.current_token)),
                                   "Literal", "None"))]

\* handle_string_literal, called with the quote consumed and chars at i
handle_string_literal(current_char, input, i, current_token, toks) ==
    LET r == scan_to_quote(input, i, Append(current_token, current_char)) IN
    [pos |-> r.pos, in_string |-> r.in_string, current_token |-> <<>>,
     tokens |-> Append(toks, Token(trim(r.current_token), "Literal", "None"))]

\* handle_special_characters without the finalize_token call
handle_special_characters_noflush(c, current_token, toks) ==
    LET token_category ==
            IF c \in {"=", "#", "*"} THEN "Operator"
            ELSE IF c = ";" THEN "Separator"
            ELSE "Unknown"
    IN Append(toks, Token(<<c>>, token_category, "None"))

\* handle_special_characters
handle_special_characters(c, current_token, toks) ==
    LET token_category ==
            IF c \in {"=", "#", "*"} THEN "Operator"
            ELSE IF c = ";" THEN "Separator"
            ELSE "Unknown"
    IN Append(finalize_token(current_token, toks), Token(<<c>>, token_category, "None"))

\* the `while let Some(&next_char) = chars.peek()` loop of handle_directive
RECURSIVE scan_identifier(_, _, _)
scan_identifier(input, i, current_token) ==
    IF i <= Len(input) /\ is_identifier_char(input[i])
    THEN scan_identifier(input, i + 1, Append(current_token, input[i]))
    ELSE [pos |-> i, current_token |-> current_token]

\* handle_directive, called with the % consumed and chars at i
handle_directive(current_char, input, i, current_token, toks) ==
    LET r == scan_identifier(input, i, Append(current_token, current_char))
        directive == to_uppercase(r.current_token)
    IN [pos |-> r.pos, current_token |-> <<>>,
        tokens |-> Append(toks, Token(directive, "Directive",
                                      get_directive_category(directive)))]

\* the `while let Some(c) = chars.next()` loop from character i on, then the
\* final finalize_token
RECURSIVE tokenize_pli_from(_, _, _, _, _)
tokenize_pli_from(input, i, toks, current_token, in_string) ==
    IF i > Len(input)
    THEN finalize_token(current_token, toks)
    ELSE LET c == input[i] IN
         IF is_whitespace(c) /\ ~in_string
         THEN tokenize_pli_from(input, i + 1, finalize_token(current_token, toks),
                                <<>>, in_string)
         ELSE IF c = "'"
         THEN LET r == handle_string_literal(c, input, i + 1, current_token, toks) IN
              tokenize_pli_from(input, r.pos, r.tokens, r.current_token, r.in_string)
         ELSE IF c = "%"
         THEN LET r == handle_directive(c, input, i + 1, current_token, toks) IN
              tokenize_pli_from(input, r.pos, r.tokens, r.current_token, in_string)
         ELSE IF c \in {"=", "#", "*", ";"}
         THEN tokenize_pli_from(input, i + 1,
                                handle_special_characters(c, current_token, toks),
                                <<>>, in_string)
         ELSE IF is_identifier_char(c)
         THEN tokenize_pli_from(input, i + 1, toks, Append(current_token, c), in_string)
         ELSE tokenize_pli_from(input, i + 1,
                                handle_special_characters(c, current_token, toks),
                                <<>>, in_string)

tokenize_pli(input) == tokenize_pli_from(input, 1, <<>>, <<>>, FALSE)

----------------------------------------------------------------------------
(* pli_preprocessor/src/modules/tokenizer: the string-literal scanner and  *)
(* has_tokenizer_error.                                                    *)

\* the `while let Some(&next_char) = chars.peek()` loop of the scanner from
\* character i on; unmatched tells that the loop ran out of input (the
\* "Unmatched string literal detected" exit)
RECURSIVE scan_literal(_, _, _, _)
scan_literal(input, i, toks, current_token) ==
    IF i > Len(input)
    THEN [called |-> TRUE, pos |-> i, current_token |-> <<>>, unmatched |-> TRUE,
          tokens |-> Append(toks, Token(current_token, "Literal", "None"))]
    ELSE IF input[i] = "'"
         THEN IF i + 1 <= Len(input) /\ input[i + 1] = "'"
              THEN scan_literal(input, i + 2, toks, current_token \o <<"'", "'">>)
              ELSE [called |-> TRUE, pos |-> i + 1, current_token |-> <<>>,
                    unmatched |-> FALSE,
                    tokens |-> Append(toks, Token(Append(current_token, "'"),
                                                  "Literal", "None"))]
         ELSE scan_literal(input, i + 1, toks, Append(current_token, input[i]))

\* string_literal.rs handle_string_literal, called with chars at i: it
\* consumes one character and returns at once unless that is a quote
scan_string_literal(input, i, toks, current_token) ==
    IF i <= Len(input) /\ input[i] = "'"
    THEN scan_literal(input, i + 1, toks, Append(current_token, "'"))
    ELSE [called |-> TRUE, pos |-> IF i <= Len(input) THEN i + 1 ELSE i,
          current_token |-> current_token, unmatched |-> FALSE, tokens |-> toks]

has_tokenizer_error(toks) ==
    \E k \in 1..Len(toks) :
        starts_with(toks[k].value, "'") /\ ~ends_with(toks[k].value, "'")

-----------------------------------------------------------------------------
(* pli_preprocessor tokenizer: tokenize_pli of tokenizer_logic.rs with the  *)
(* handlers of token.rs, directive.rs, special_char.rs, string_literal.rs.  *)

\* token.rs finalize_token: the buffer is pushed as it is, with the
\* category the caller names
token_finalize_token(current_token, toks, category) ==
    IF current_token # <<>>
    THEN Append(toks, Token(current_token, category, "None"))
    ELSE toks

\* directive.rs handle_directive: statement for statement that of
\* tokenizer.rs
directive_handle_directive(current_char, input, i, current_token, toks) ==
    handle_directive(current_char, input, i, current_token, toks)

\* special_char.rs handle_special_characters with its own uppercasing
\* finalize_token: statement for statement those of tokenizer.rs
special_char_handle_special_characters(c, current_token, toks) ==
    handle_special_characters(c, current_token, toks)

\* the `while let Some(c) = chars.next()` loop of tokenizer_logic.rs from
\* character i on, then the final finalize_token; the quote arm hands the
\* iterator, already past the quote, to handle_string_literal
RECURSIVE tokenize_pli_logic_from(_, _, _, _)
tokenize_pli_logic_from(input, i, toks, current_token) ==
    IF i > Len(input)
    THEN token_finalize_token(current_token, toks, "Identifier")
    ELSE LET c == input[i] IN
         IF is_whitespace(c)
         THEN tokenize_pli_logic_from(
                  input, i + 1,
                  token_finalize_token(current_token, toks, "Identifier"), <<>>)
         ELSE IF c = "'"
         THEN LET r == scan_string_literal(input, i + 1, toks, current_token) IN
              tokenize_pli_logic_from(input, r.pos, r.tokens, r.current_token)
         ELSE IF c = "%"
         THEN LET r == directive_handle_directive(c, input, i + 1, current_token, toks) IN
              tokenize_pli_logic_from(input, r.pos, r.tokens, r.current_token)
         ELSE IF c \in {"=", "#", "*", ";"}
         THEN tokenize_pli_logic_from(
                  input, i + 1,
                  special_char_handle_special_characters(c, current_token, toks), <<>>)
         ELSE IF is_identifier_char(c)
         THEN tokenize_pli_logic_from(input, i + 1, toks, Append(current_token, c))
         ELSE tokenize_pli_logic_from(
                  input, i + 1,
                  special_char_handle_special_characters(c, current_token, toks), <<>>)

tokenize_pli_logic(input) == tokenize_pli_logic_from(input, 1, <<>>, <<>>)

----------------------------------------------------------------------------
(* The lexer specification: one input line, tokenized, and scanned as a    *)
(* string literal.                                                         *)

LineAlphabet == {"A", "b", "'", "%", ";", "=", " "}

LineExamples ==
    {<<"A","B","C","%","I","F">>,
     <<"A","'","x","'">>,
     <<"'","a","'","'">>,
     <<"'","i","t","'","'","s","'">>,
     <<"S","E","T"," ","A"," ","="," ","'","H","e","l","l","o",","," ","W","o","r","l","d","!","'",";">>,
     <<"'","u","n","m","a","t","c","h","e","d"," ","s","t","r","i","n","g">>,
     <<"x","_","1"," ","*","\t","y","#","#"," ",";">>,
     <<" "," ","a","=","b","*","c",";"," ">>,
     <<"1">>,
     <<"A","=","4","2",";">>,
     <<"%","I","N","V","A","L","I","D"," ","'","s","t","r","i","n","g","'"," ",
       "A"," ","="," ","B",";">>,
     <<"%","I","F"," ","D","E","B","U","G"," ","="," ","1"," ","%","T","H","E","N">>}

LineInputs == BoundedSeqs(LineAlphabet, MaxLineLen) \cup LineExamples

InitLex ==
    /\ tokens = <<>>
    /\ line \in LineInputs
    /\ pe_result = NoResult
    /\ ve_result = NoResult
    /\ cs_result = NoResult
    /\ vs_result = NoResult
    /\ vc_result = NoResult
    /\ tk_result = NoTokens
    /\ sl_result = NoScan
    /\ te_result = NoFlag
    /\ lx = NoLexer
    /\ tl_result = NoTokens
    /\ ev_result = NoOutcome
    /\ eo = NoCall
    /\ inv = NoInvocations

TokenizePli ==
    /\ ~tk_result.called
    /\ tk_result' = [called |-> TRUE, tokens |-> tokenize_pli(line)]
    /\ UNCHANGED <<tokens, line, pe_result, ve_result, cs_result, vs_result,
                   vc_result, sl_result, te_result, lx,
                   tl_result, ev_result, eo, inv>>

HandleStringLiteral ==
    /\ ~sl_result.called
    /\ sl_result' = scan_string_literal(line, 1, <<>>, <<>>)
    /\ UNCHANGED <<tokens, line, pe_result, ve_result, cs_result, vs_result,
                   vc_result, tk_result, te_result, lx,
                   tl_result, ev_result, eo, inv>>

HasTokenizerError ==
    /\ sl_result.called
    /\ ~te_result.called
    /\ te_result' = [called |-> TRUE, value |-> has_tokenizer_error(sl_result.tokens)]
    /\ UNCHANGED <<tokens, line, pe_result, ve_result, cs_result, vs_result,
                   vc_result, tk_result, sl_result, lx,
                   tl_result, ev_result, eo, inv>>

TokenizePliLogic ==
    /\ ~tl_result.called
    /\ tl_result' = [called |-> TRUE, tokens |-> tokenize_pli_logic(line)]
    /\ UNCHANGED <<tokens, line, pe_result, ve_result, cs_result, vs_result,
                   vc_result, tk_result, sl_result, te_result, lx,
                   ev_result, eo, inv>>

NextLex == TokenizePli \/ HandleStringLiteral \/ HasTokenizerError \/ TokenizePliLogic

SpecLex == InitLex /\ [][NextLex]_vars

----------------------------------------------------------------------------
(* Properties of the lexer.                                                *)

\* C9: in tokenize_pli the identifier characters held in the buffer when a
\* %, a quote or a punctuation character arrives are emitted as their own
\* Identifier token first: no Directive token has text before its %, no
\* Literal token has text before its quote, and no punctuation token is
\* longer than its character; ABC%IF gives [ABC, %IF] and A'x' gives
\* [A, 'x'].
C9_FlushBeforeSpecialToken ==
    tk_result.called =>
        /\ \A k \in 1..Len(tk_result.tokens) :
              LET t == tk_result.tokens[k] IN
              /\ t.category = "Directive" => t.value[1] = "%"
              /\ t.category = "Literal" => t.value[1] = "'"
              /\ t.category \in {"Operator", "Separator", "Unknown"} => Len(t.value) = 1
        /\ line = <<"A","B","C","%","I","F">>
              => tk_result.tokens = <<Token(<<"A","B","C">>, "Identifier", "None"),
                                      Token(tIF, "Directive", "ControlFlow")>>
        /\ line = <<"A","'","x","'">>
              => tk_result.tokens = <<Token(tA, "Identifier", "None"),
                                      Token(<<"'","x","'">>, "Literal", "None")>>

\* C10: whenever the string-literal scanner, started at an opening quote,
\* reaches the end of the input without finding a closing quote, it emits
\* exactly one Literal token and has_tokenizer_error on the resulting
\* tokens returns true.
C10_UnterminatedIsReported ==
    te_result.called /\ starts_with(line, "'") /\ sl_result.unmatched =>
        /\ Len(sl_result.tokens) = 1
        /\ sl_result.tokens[1].category = "Literal"
        /\ te_result.value = TRUE

----------------------------------------------------------------------------
(* Properties of the %THEN arm of validate_syntax.                         *)

\* number of %IF still open after toks[1..j]
OpenIfs(toks, j) == Cnt(toks, 1, j, tIF) - Cnt(toks, 1, j, tENDIF)

\* no token before toks[j] makes validate_syntax return: every %ENDIF and
\* %THEN before j has an open %IF and every other % token is a valid
\* directive
ReachedClean(toks, j) ==
    \A k \in 1..(j - 1) :
        /\ toks[k] = tENDIF => OpenIfs(toks, k) >= 0
        /\ toks[k] = tTHEN => OpenIfs(toks, k) > 0
        /\ toks[k][1] = "%" /\ toks[k] \notin {tIF, tENDIF, tTHEN}
              => to_uppercase(toks[k]) \in valid_directives

\* toks without its %THEN tokens
RECURSIVE WithoutThen(_)
WithoutThen(toks) ==
    IF toks = <<>> THEN <<>>
    ELSE IF Head(toks) = tTHEN THEN WithoutThen(Tail(toks))
    ELSE <<Head(toks)>> \o WithoutThen(Tail(toks))

\* C11: a %THEN met by validate_syntax while no %IF is open yields the
\* error "%THEN without matching %IF"; a %THEN met while an %IF is open
\* neither pushes nor pops, so a sequence whose %THEN tokens all stand in an
\* open %IF has the outcome of the same sequence without them.
C11_ThenNeedsOpenIf ==
    vs_result # NoResult =>
        /\ (\E j \in 1..Len(tokens) :
               /\ tokens[j] = tTHEN
               /\ ReachedClean(tokens, j)
               /\ OpenIfs(tokens, j) = 0)
              => vs_result = Err("%THEN without matching %IF", <<>>)
        /\ (\A j \in 1..Len(tokens) : tokens[j] = tTHEN => OpenIfs(tokens, j) > 0)
              => vs_result = validate_syntax(WithoutThen(tokens))

C11_Witness ==
    /\ tokens = <<tIF, tENDIF, tTHEN>>
    /\ vs_result = Err("%THEN without matching %IF", <<>>)

----------------------------------------------------------------------------
(* Properties of the string-literal scanners.                              *)

\* s[i..] is the rest of a complete literal: non-quote characters and
\* doubled quotes, then one closing quote that ends s
RECURSIVE ClosesAtEnd(_, _)
ClosesAtEnd(s, i) ==
    IF i > Len(s) THEN FALSE
    ELSE IF s[i] # "'" THEN ClosesAtEnd(s, i + 1)
    ELSE IF i = Len(s) THEN TRUE
    ELSE s[i + 1] = "'" /\ ClosesAtEnd(s, i + 2)

\* s is one complete quoted literal that holds a doubled quote
IsLiteralWithDoubledQuote(s) ==
    /\ Len(s) >= 4
    /\ s[1] = "'"
    /\ ClosesAtEnd(s, 2)
    /\ \E i \in 2..(Len(s) - 2) : s[i] = "'" /\ s[i + 1] = "'"

\* C12: a quote immediately followed by another quote is an escaped quote,
\* so a complete literal that holds a doubled quote (e.g. 'it''s') is
\* emitted as exactly one Literal token whose text is the whole literal,
\* by the scanner of string_literal.rs and by tokenize_pli of tokenizer.rs.
C12_DoubledQuoteIsEscaped ==
    IsLiteralWithDoubledQuote(line) =>
        /\ sl_result.called => sl_result.tokens = <<Token(line, "Literal", "None")>>
        /\ tk_result.called => tk_result.tokens = <<Token(line, "Literal", "None")>>

----------------------------------------------------------------------------
(* Properties of the tokens of tokenize_pli.                               *)

\* C13: every token produced by tokenize_pli has directive_category None
\* if and only if its category is not Directive.
C13_KindIffDirective ==
    tk_result.called =>
        \A k \in 1..Len(tk_result.tokens) :
            (tk_result.tokens[k].directive_category = "None")
                <=> (tk_result.tokens[k].category # "Directive")

C13_Witness ==
    /\ tk_result.called
    /\ \E k \in 1..Len(tk_result.tokens) :
          /\ tk_result.tokens[k].category = "Directive"
          /\ tk_result.tokens[k].directive_category = "Other"
    /\ \E k \in 1..Len(tk_result.tokens) :
          /\ tk_result.tokens[k].category = "Identifier"
          /\ tk_result.tokens[k].directive_category = "None"

\* number of quote characters in s[1..j]
QuotesBefore(s, j) == Cardinality({k \in 1..j : s[k] = "'"})

\* s[p] is a % outside every string literal of the lexer of tokenizer.rs,
\* where a literal runs from a quote to the next quote
IsDirectiveMarker(s, p) == s[p] = "%" /\ QuotesBefore(s, p - 1) % 2 = 0

\* the identifier characters that follow position p without a break
RECURSIVE IdRun(_, _)
IdRun(s, p) ==
    IF p <= Len(s) /\ (is_alphanumeric(s[p]) \/ s[p] = "_")
    THEN <<s[p]>> \o IdRun(s, p + 1)
    ELSE <<>>

\* the directive kinds by spelling
KindOf(text) ==
    IF text \in {<<"%","I","F">>, <<"%","T","H","E","N">>, <<"%","E","L","S","E">>,
                 <<"%","E","N","D","I","F">>} THEN "ControlFlow"
    ELSE IF text \in {<<"%","M","A","C","R","O">>,
                      <<"%","I","N","C","L","U","D","E">>} THEN "MacroHandling"
    ELSE IF text \in {<<"%","S","W","I","T","C","H">>, <<"%","C","A","S","E">>,
                      <<"%","E","V","A","L","U","A","T","E">>} THEN "Conditional"
    ELSE IF text = <<"%","C","O","M","M","E","N","T">> THEN "Comment"
    ELSE "Other"

\* the Directive tokens the % markers of s[p..] call for, in input order
RECURSIVE ExpectedDirectives(_, _)
ExpectedDirectives(s, p) ==
    IF p > Len(s) THEN <<>>
    ELSE IF IsDirectiveMarker(s, p)
         THEN LET text == to_uppercase(<<"%">> \o IdRun(s, p + 1)) IN
              <<Token(text, "Directive", KindOf(text))>> \o ExpectedDirectives(s, p + 1)
         ELSE ExpectedDirectives(s, p + 1)

IsDirectiveToken(t) == t.category = "Directive"

\* C14: each % outside a string literal produces exactly one Directive
\* token whose text is % plus the identifier characters that follow it,
\* uppercased, and whose kind is that of the classification table (Other
\* for every other spelling); no directive is dropped.
C14_OneDirectivePerMarker ==
    tk_result.called =>
        SelectSeq(tk_result.tokens, IsDirectiveToken) = ExpectedDirectives(line, 1)

\* the all-lowercase form of a line
to_lowercase(s) ==
    [i \in 1..Len(s) |->
        IF s[i] \in Range(UpperSeq)
        THEN LowerSeq[CHOOSE k \in 1..Len(UpperSeq) : UpperSeq[k] = s[i]]
        ELSE s[i]]

HasNoQuote(s) == \A i \in 1..Len(s) : s[i] # "'"

\* C15: tokenize_pli is case-insensitive outside string literals: for a
\* line with no quote character the all-lowercase form and the
\* all-uppercase form give the token sequence of the line itself, hence
\* identical token sequences.
C15_CaseInsensitive ==
    tk_result.called /\ HasNoQuote(line) =>
        /\ tokenize_pli(to_lowercase(line)) = tk_result.tokens
        /\ tokenize_pli(to_uppercase(line)) = tk_result.tokens

C15_Witness ==
    /\ line = <<"%", "b", " ", "b">>
    /\ tk_result.called
    /\ tk_result.tokens = <<Token(<<"%", "B">>, "Directive", "Other"),
                            Token(<<"B">>, "Identifier", "None")>>
    /\ tokenize_pli(<<"%", "B", " ", "B">>) = tk_result.tokens

\* the position of the first quote of s at or after p, Len(s) + 1 if none
RECURSIVE NextQuote(_, _)
NextQuote(s, p) ==
    IF p > Len(s) \/ s[p] = "'" THEN p ELSE NextQuote(s, p + 1)

\* the start of the unbroken run of identifier characters that ends at p - 1
RECURSIVE RunStart(_, _)
RunStart(s, p) ==
    IF p > 1 /\ (is_alphanumeric(s[p - 1]) \/ s[p - 1] = "_")
    THEN RunStart(s, p - 1)
    ELSE p

\* in a quote-free prefix s[1..p-1] the lexer's buffer is empty at p: no
\* identifier characters are pending, or a directive has taken them
BufferEmptyAt(s, p) ==
    LET q == RunStart(s, p) IN q = p \/ (q > 1 /\ s[q - 1] = "%")

HelloLine ==
    <<"S","E","T"," ","A"," ","="," ","'","H","e","l","l","o",","," ",
      "W","o","r","l","d","!","'",";">>

HelloTokens ==
    <<Token(<<"S","E","T">>, "Identifier", "None"),
      Token(<<"A">>, "Identifier", "None"),
      Token(<<"=">>, "Operator", "None"),
      Token(<<"'","H","e","l","l","o",","," ","W","o","r","l","d","!","'">>,
            "Literal", "None"),
      Token(<<";">>, "Separator", "None")>>

\* C16: a complete quoted string that starts where the buffer is empty is
\* emitted by tokenize_pli as exactly one Literal token whose text is the
\* quoted string with both quotes and its case preserved; nothing inside
\* the quotes makes a token of its own, so the tokens are those of the
\* text before the string, the literal, and those of the text after it.
C16_CompleteLiteralIsOneToken ==
    tk_result.called =>
        /\ LET p == NextQuote(line, 1)
               q == NextQuote(line, p + 1)
           IN  (p <= Len(line) /\ q <= Len(line) /\ BufferEmptyAt(line, p)) =>
                   tk_result.tokens =
                       tokenize_pli(SubSeq(line, 1, p - 1))
                       \o <<Token(SubSeq(line, p, q), "Literal", "None")>>
                       \o tokenize_pli(SubSeq(line, q + 1, Len(line)))
        /\ (line = HelloLine => tk_result.tokens = HelloTokens)

C16_Witness ==
    /\ line = HelloLine
    /\ tk_result.called
    /\ tk_result.tokens = HelloTokens

\* the operators the expression grammar names
ExprOperators == {PLUS, MINUS, STAR, SLASH, tAND, tOR}

\* toks[i] is an operator right after an operator or an opening parenthesis
PlacementAt(toks, i) ==
    /\ i > 1
    /\ toks[i] \in ExprOperators
    /\ toks[i - 1] \in ExprOperators \cup {LPAREN}

\* none of toks[1..j] gives validate_expression a reason to stop
NoErrorUpTo(toks, j) ==
    \A k \in 1..j :
        /\ IsExprToken(toks[k])
        /\ ~PlacementAt(toks, k)
        /\ ~UnmatchedCloseAt(toks, k)

\* C17: validate_expression returns an operator-placement error naming the
\* operator for every token sequence in which an operator (+, -, *, /, AND,
\* OR) immediately follows another operator or an opening parenthesis,
\* provided no earlier token already caused an error.
C17_OperatorPlacement ==
    ve_result # NoResult =>
        \A i \in 1..Len(tokens) :
            (PlacementAt(tokens, i) /\ NoErrorUpTo(tokens, i - 1)) =>
                ve_result = Err("Invalid operator placement", tokens[i])

C17_Witness ==
    /\ tokens = <<tA, PLUS, tAND, tB>>
    /\ ve_result = Err("Invalid operator placement", tAND)

\* C18: validate_expression returns Ok only for sequences whose
\* parentheses are balanced: scanning from the left it returns "Unmatched
\* closing parenthesis" at the first ")" that has no open "(" before it,
\* and "Unmatched opening parenthesis" when the scan reaches the end with
\* a non-zero depth.
C18_ParenthesesBalanced ==
    ve_result # NoResult =>
        /\ is_ok(ve_result) => ProperlyNested(tokens, LPAREN, RPAREN)
        /\ \A j \in 1..Len(tokens) :
              (UnmatchedCloseAt(tokens, j) /\ NoErrorUpTo(tokens, j - 1)) =>
                  ve_result = Err("Unmatched closing parenthesis", <<>>)
        /\ (/\ NoErrorUpTo(tokens, Len(tokens))
            /\ Cnt(tokens, 1, Len(tokens), LPAREN) # Cnt(tokens, 1, Len(tokens), RPAREN)) =>
                  ve_result = Err("Unmatched opening parenthesis", <<>>)

C18_Witness ==
    /\ ve_result = Err("Unmatched opening parenthesis", <<>>)
    /\ tokens = <<LPAREN, tA, PLUS, tB>>

\* a line of whitespace, identifier characters and the punctuation = * # ;
IsPlainLine(s) ==
    \A i \in 1..Len(s) :
        \/ is_whitespace(s[i])
        \/ is_alphanumeric(s[i]) \/ s[i] = "_"
        \/ s[i] \in {"=", "*", "#", ";"}

\* the token texts joined with single spaces
RECURSIVE JoinTexts(_)
JoinTexts(toks) ==
    IF toks = <<>> THEN <<>>
    ELSE IF Len(toks) = 1 THEN toks[1].value
    ELSE toks[1].value \o <<" ">> \o JoinTexts(Tail(toks))

\* the token texts one after the other
RECURSIVE ConcatTexts(_)
ConcatTexts(toks) ==
    IF toks = <<>> THEN <<>> ELSE toks[1].value \o ConcatTexts(Tail(toks))

IsNotWhitespace(c) == ~is_whitespace(c)

\* C19: tokenization round-trips: for every line made only of whitespace,
\* identifier characters and the punctuation = * # ;, joining the token
\* texts with single spaces and tokenizing that string again yields the
\* same token sequence, and the concatenated token texts equal the
\* uppercased input with its whitespace removed.
C19_RoundTrip ==
    (tk_result.called /\ IsPlainLine(line)) =>
        /\ tokenize_pli(JoinTexts(tk_result.tokens)) = tk_result.tokens
        /\ ConcatTexts(tk_result.tokens) = to_uppercase(SelectSeq(line, IsNotWhitespace))

C19_Witness ==
    /\ line = <<" "," ","a","=","b","*","c",";"," ">>
    /\ tk_result.called
    /\ JoinTexts(tk_result.tokens) = <<"A"," ","="," ","B"," ","*"," ","C"," ",";">>
    /\ tokenize_pli(JoinTexts(tk_result.tokens)) = tk_result.tokens

-----------------------------------------------------------------------------
(* tokenizer.rs: tokenize_pli one loop iteration at a time. lx.pos is the   *)
(* position of the character the iterator chars yields next, lx.consumed    *)
(* the characters chars.next() has yielded so far, lx.pc the loop that runs.*)

StepOthers ==
    UNCHANGED <<tokens, line, pe_result, ve_result, cs_result, vs_result,
                vc_result, tk_result, sl_result, te_result,
                tl_result, ev_result, eo, inv>>

\* chars.next() yielding line[lx.pos]
Consume(l) ==
    [l EXCEPT !.pos = @ + 1, !.consumed = Append(@, line[l.pos])]

InitSteps ==
    /\ tokens = <<>>
    /\ line \in LineInputs
    /\ pe_result = NoResult
    /\ ve_result = NoResult
    /\ cs_result = NoResult
    /\ vs_result = NoResult
    /\ vc_result = NoResult
    /\ tk_result = NoTokens
    /\ sl_result = NoScan
    /\ te_result = NoFlag
    /\ lx = [pc |-> "main", pos |-> 1, tokens |-> <<>>, current_token |-> <<>>,
             in_string |-> FALSE, consumed |-> <<>>]
    /\ tl_result = NoTokens
    /\ ev_result = NoOutcome
    /\ eo = NoCall
    /\ inv = NoInvocations

\* one iteration of `while let Some(c) = chars.next()` of tokenize_pli, up
\* to the first loop of the handler it calls
MainStep ==
    /\ lx.pc = "main"
    /\ lx.pos <= Len(line)
    /\ LET c == line[lx.pos]
           l == Consume(lx)
       IN  lx' =
             IF is_whitespace(c) /\ ~lx.in_string
             THEN [l EXCEPT !.tokens = finalize_token(lx.current_token, lx.tokens),
                            !.current_token = <<>>]
             ELSE IF c = "'"
             THEN [l EXCEPT !.in_string = TRUE,
                            !.current_token = Append(@, c),
                            !.pc = "string"]
             ELSE IF c = "%"
             THEN [l EXCEPT !.current_token = Append(@, c),
                            !.pc = "directive"]
             ELSE IF c \in {"=", "#", "*", ";"}
             THEN [l EXCEPT !.tokens = handle_special_characters(
                                           c, lx.current_token, lx.tokens),
                            !.current_token = <<>>]
             ELSE IF is_identifier_char(c)
             THEN [l EXCEPT !.current_token = Append(@, c)]
             ELSE [l EXCEPT !.tokens = handle_special_characters(
                                           c, lx.current_token, lx.tokens),
                            !.current_token = <<>>]
    /\ StepOthers

\* the literal is pushed and the buffer cleared, back in the main loop
PushLiteral(l) ==
    [l EXCEPT !.tokens = Append(@, Token(trim(l.current_token), "Literal", "None")),
              !.current_token = <<>>,
              !.pc = "main"]

\* one iteration of the loop of handle_string_literal; the closing quote
\* breaks out of it
StringStep ==
    /\ lx.pc = "string"
    /\ lx.pos <= Len(line)
    /\ LET next_char == line[lx.pos]
           l == [Consume(lx) EXCEPT !.current_token = Append(@, next_char)]
       IN  lx' = IF next_char = "'"
                 THEN PushLiteral([l EXCEPT !.in_string = FALSE])
                 ELSE l
    /\ StepOthers

\* chars.peek() is None in handle_string_literal
StringExit ==
    /\ lx.pc = "string"
    /\ lx.pos > Len(line)
    /\ lx' = PushLiteral(lx)
    /\ StepOthers

\* an iteration of the loop of handle_directive that leaves the iterator
\* where it is
DirectiveStepStuck ==
    /\ lx.pc = "directive"
    /\ lx.pos <= Len(line)
    /\ is_identifier_char(line[lx.pos])
    /\ lx' = lx
    /\ StepOthers

\* one iteration of the loop of handle_directive that takes a character
DirectiveStep ==
    /\ lx.pc = "directive"
    /\ lx.pos <= Len(line)
    /\ is_identifier_char(line[lx.pos])
    /\ lx' = [Consume(lx) EXCEPT !.current_token = Append(@, line[lx.pos])]
    /\ StepOthers

\* chars.peek() is None or no identifier character: the loop of
\* handle_directive breaks and the directive is pushed
DirectiveExit ==
    /\ lx.pc = "directive"
    /\ IF lx.pos <= Len(line) THEN ~is_identifier_char(line[lx.pos]) ELSE TRUE
    /\ LET directive == to_uppercase(lx.current_token) IN
       lx' = [lx EXCEPT !.tokens = Append(@, Token(directive, "Directive",
                                             get_directive_category(directive))),
                        !.current_token = <<>>,
                        !.pc = "main"]
    /\ StepOthers

\* chars.next() is None in tokenize_pli: the last finalize_token, return
Finish ==
    /\ lx.pc = "main"
    /\ lx.pos > Len(line)
    /\ lx' = [lx EXCEPT !.tokens = finalize_token(lx.current_token, lx.tokens),
                        !.current_token = <<>>,
                        !.pc = "done"]
    /\ StepOthers

NextSteps ==
    \/ MainStep
    \/ StringStep
    \/ StringExit
    \/ DirectiveStep
    \/ DirectiveExit
    \/ Finish

\* tokenize_pli runs to completion on its caller's thread
SpecSteps == InitSteps /\ [][NextSteps]_vars /\ WF_vars(NextSteps)

\* an iteration of one of the three loops
LoopStep == MainStep \/ StringStep \/ DirectiveStep

\* C20: tokenize_pli terminates on every finite input and never fails:
\* each loop step (main loop, directive scanner, string-literal scanner)
\* consumes at least one input character, every character is consumed
\* exactly once and in order, and the call always ends by returning a
\* token sequence, the one tokenize_pli computes for the line.
C20_Terminates ==
    /\ [][LoopStep => Len(lx'.consumed) > Len(lx.consumed)]_vars
    /\ [](lx.consumed = SubSeq(line, 1, lx.pos - 1))
    /\ [](lx.pc = "done" => (lx.consumed = line /\ lx.tokens = tokenize_pli(line)))
    /\ <>(lx.pc = "done")

C20_Witness ==
    /\ line = <<"A", "%", "b", "'">>
    /\ lx.pc = "done"
    /\ lx.consumed = line
    /\ Len(lx.tokens) = 2

\* the operators of toks all have one rank: all of * /, or all of + -
OneRank(toks) ==
    \/ \A i \in 1..Len(toks) : i % 2 = 0 => toks[i] \in {STAR, SLASH}
    \/ \A i \in 1..Len(toks) : i % 2 = 0 => toks[i] \in {PLUS, MINUS}

\* o1 op1 o2 op2 o3 ... applied strictly left to right:
\* o1 o2 op1 o3 op2 ...
LeftToRight(toks) ==
    [k \in 1..Len(toks) |->
        IF k = 1 THEN toks[1]
        ELSE IF k % 2 = 0 THEN toks[k + 1]
        ELSE toks[k - 1]]

\* C22: parse_expression is left-associative for operators of equal
\* precedence: the earlier operator is popped to the output before the
\* arriving one is pushed, so A - B - C gives A B - C - and A / B * C
\* gives A B / C *; an open "(" on the stack top is never popped by an
\* arriving operator, so it still closes its group or is reported.
C22_LeftAssociative ==
    pe_result # NoResult =>
        /\ tokens = <<tA, MINUS, tB, MINUS, tC>>
              => pe_result = Ok(<<tA, tB, MINUS, tC, MINUS>>)
        /\ tokens = <<tA, SLASH, tB, STAR, tC>>
              => pe_result = Ok(<<tA, tB, SLASH, tC, STAR>>)
        /\ (IsAlternating(tokens) /\ OneRank(tokens))
              => pe_result = Ok(LeftToRight(tokens))
        /\ (Len(tokens) > 1 /\ tokens[1] = LPAREN /\ IsAlternating(Tail(tokens)))
              => pe_result = Err("Mismatched parentheses in expression.", <<>>)
        /\ tokens = <<tA, SLASH, LPAREN, tB, STAR, tC, RPAREN>>
              => pe_result = Ok(<<tA, tB, tC, STAR, SLASH>>)

C22_Witness ==
    /\ tokens = <<tA, MINUS, tB, MINUS, tC>>
    /\ pe_result = Ok(<<tA, tB, MINUS, tC, MINUS>>)

\* values on the stack after evaluating the postfix out[1..k] left to
\* right: an operator takes two values and leaves one
PostfixDepth(out, k) ==
    Cardinality({j \in 1..k : out[j] \notin ExprOperators})
        - Cardinality({j \in 1..k : out[j] \in ExprOperators})

WellFormedPostfix(out) ==
    /\ \A k \in 1..Len(out) :
          out[k] \in ExprOperators => PostfixDepth(out, k - 1) >= 2
    /\ PostfixDepth(out, Len(out)) = 1

\* C26: whenever validate_expression accepts a non-empty token sequence,
\* the postfix sequence parse_expression returns for it is well-formed:
\* evaluated left to right with a value stack, every operator finds two
\* values and exactly one value remains at the end.
C26_ValidatedPostfixWellFormed ==
    (BothExprCalled /\ tokens # <<>> /\ is_ok(ve_result)) =>
        /\ is_ok(pe_result)
        /\ WellFormedPostfix(pe_result.val)

IsParen(t) == t \in {LPAREN, RPAREN}

IsOperandToken(t) == all_alphanumeric(t) /\ t \notin ExprOperators

\* occurrences of t in s
Occurs(s, t) == Cardinality({k \in 1..Len(s) : s[k] = t})

\* C27: whenever parse_expression returns Ok, its output holds no "(" or
\* ")" token, holds every other token exactly as often as the input does,
\* and lists the operands in the same relative order as the input.
C27_OutputIsPermutation ==
    is_ok(pe_result) =>
        /\ \A k \in 1..Len(pe_result.val) : ~IsParen(pe_result.val[k])
        /\ \A t \in (Range(tokens) \cup Range(pe_result.val)) \ {LPAREN, RPAREN} :
              Occurs(pe_result.val, t) = Occurs(tokens, t)
        /\ SelectSeq(pe_result.val, IsOperandToken) = SelectSeq(tokens, IsOperandToken)

C27_Witness ==
    /\ tokens = <<LPAREN, tA, PLUS, tB, RPAREN, STAR, tC>>
    /\ is_ok(pe_result)
    /\ Len(pe_result.val) = 5
    /\ SelectSeq(pe_result.val, IsOperandToken) = <<tA, tB, tC>>

\* %IF, %ENDIF or a token that does not start with %
IsConditionalOrPlain(t) == t \in {tIF, tENDIF} \/ ~starts_with(t, "%")

\* C28: the stack-based validate_syntax and the counter-based
\* validate_conditional_structure agree: for every non-empty token
\* sequence made only of %IF, %ENDIF and tokens that do not start with %,
\* both return Ok or both return Err, and they fail at the same token: the
\* unmatched-%ENDIF error appears on the same prefix, the unmatched-%IF
\* error on the same whole sequence.
C28_ValidatorsAgree ==
    (/\ vs_result # NoResult
     /\ vc_result # NoResult
     /\ tokens # <<>>
     /\ \A k \in 1..Len(tokens) : IsConditionalOrPlain(tokens[k])) =>
        /\ is_ok(vs_result) <=> is_ok(vc_result)
        /\ is_err(vs_result) <=> is_err(vc_result)
        /\ \A j \in 1..Len(tokens) :
              (validate_syntax(SubSeq(tokens, 1, j)).err = "Unmatched %ENDIF found")
                  <=> (validate_conditional_structure(SubSeq(tokens, 1, j)).err
                           = "Unmatched %ENDIF directive")
        /\ (vs_result.err = "Unmatched %IF found")
              <=> (vc_result.err = "Unmatched %IF directive")

C28_Witness ==
    /\ tokens = <<tIF, tENDIF, tENDIF>>
    /\ vs_result.err = "Unmatched %ENDIF found"
    /\ vc_result.err = "Unmatched %ENDIF directive"
    /\ is_ok(validate_syntax(<<tIF, tENDIF>>))

-----------------------------------------------------------------------------
(* tokenizer_logic.rs: is_valid_preprocessor_directive, on the token        *)
(* values.                                                                  *)

preprocessor_directives ==
    {tIF, tTHEN, tELSE, tENDIF, tMACRO,
     <<"%","I","N","C","L","U","D","E">>, <<"%","C","O","M","M","E","N","T">>}

is_valid_preprocessor_directive(toks) ==
    IF toks = <<>> THEN FALSE ELSE toks[1] \in preprocessor_directives

\* C29: the directive allow-lists of lexer and validator are consistent:
\* every spelling is_valid_preprocessor_directive accepts as the first
\* token of a line is accepted by is_valid_directive too, so
\* validate_syntax never returns "Invalid directive" for the first token
\* of a line that starts with a recognized directive.
C29_AllowListsConsistent ==
    (vs_result # NoResult /\ is_valid_preprocessor_directive(tokens)) =>
        /\ is_valid_directive(tokens[1])
        /\ vs_result # Err("Invalid directive", tokens[1])

\* a non-empty text of decimal digits
IsNumber(text) ==
    text # <<>> /\ \A i \in 1..Len(text) : text[i] \in Range(DigitSeq)

\* a non-empty text of letters
IsWord(text) ==
    text # <<>> /\ \A i \in 1..Len(text) : text[i] \in Range(UpperSeq) \cup Range(LowerSeq)

\* C24: a whitespace- or punctuation-delimited token that consists only of
\* digits is given category Literal by tokenize_pli (the 1 of
\* %IF DEBUG = 1 %THEN is Token("1", Literal, None)), while alphabetic
\* words are Identifier.
C24_NumbersAreLiteral ==
    tk_result.called =>
        \A k \in 1..Len(tk_result.tokens) :
            /\ IsNumber(tk_result.tokens[k].value)
                  => tk_result.tokens[k] = Token(tk_result.tokens[k].value, "Literal", "None")
            /\ IsWord(tk_result.tokens[k].value)
                  => tk_result.tokens[k].category = "Identifier"

\* the texts of a token sequence
Values(toks) == [k \in 1..Len(toks) |-> toks[k].value]

InvalidLine ==
    <<"%","I","N","V","A","L","I","D"," ","'","s","t","r","i","n","g","'"," ",
      "A"," ","="," ","B",";">>

\* C23: tokenize_pli of tokenizer_logic.rs loses no input character around
\* a string literal: a complete quoted string that starts where the buffer
\* is empty becomes one Literal token with both quotes and the tokens
\* before and after it are those of the text before and after it, so
\* %INVALID 'string' A = B; gives %INVALID, 'string', A, =, B, ;.
C23_LiteralKeepsNeighbours ==
    tl_result.called =>
        /\ LET p == NextQuote(line, 1)
               q == NextQuote(line, p + 1)
           IN  (/\ p <= Len(line)
                /\ q <= Len(line)
                /\ q > p + 1
                /\ q = Len(line) \/ line[q + 1] # "'"
                /\ BufferEmptyAt(line, p)) =>
                   tl_result.tokens =
                       tokenize_pli_logic(SubSeq(line, 1, p - 1))
                       \o <<Token(SubSeq(line, p, q), "Literal", "None")>>
                       \o tokenize_pli_logic(SubSeq(line, q + 1, Len(line)))
        /\ (line = InvalidLine =>
               Values(tl_result.tokens) =
                   << <<"%","I","N","V","A","L","I","D">>,
                      <<"'","s","t","r","i","n","g","'">>,
                      <<"A">>, <<"=">>, <<"B">>, <<";">> >>)

-----------------------------------------------------------------------------
(* evaluator.rs: evaluate_operator on i32 operands. Every intermediate      *)
(* value below stays inside the i32 range; an i32 overflow panics where the *)
(* build checks overflow and wraps where it does not.                       *)

I32_MAX == 2147483647

I32_MIN == -2147483647 - 1

EvOk(n) == [tag |-> "Ok", num |-> n, err |-> ""]

EvErr(msg) == [tag |-> "Err", num |-> 0, err |-> msg]

\* the call aborts with a panic
EvPanic(msg) == [tag |-> "Panic", num |-> 0, err |-> msg]

\* a + b lies outside the i32 range
add_overflows(a, b) ==
    \/ b > 0 /\ a > I32_MAX - b
    \/ b < 0 /\ a < I32_MIN - b

\* a + b modulo 2^32, as a two's-complement i32
wrapping_add(a, b) ==
    IF b > 0 /\ a > I32_MAX - b THEN (a - I32_MAX - 1) + (b - I32_MAX - 1)
    ELSE IF b < 0 /\ a < I32_MIN - b THEN (a - I32_MIN) + (b - I32_MIN)
    ELSE a + b

\* a - b lies outside the i32 range
sub_overflows(a, b) ==
    \/ b < 0 /\ a > I32_MAX + b
    \/ b > 0 /\ a < I32_MIN + b

\* a - b modulo 2^32
wrapping_sub(a, b) ==
    IF b < 0 /\ a > I32_MAX + b THEN (a - I32_MAX - 1) - (b - I32_MIN)
    ELSE IF b > 0 /\ a < I32_MIN + b THEN (a - I32_MIN) - (b - I32_MAX - 1)
    ELSE a - b

\* a * b lies outside the i32 range
mul_overflows(a, b) ==
    IF a = 0 \/ b = 0 THEN FALSE
    ELSE IF a > 0 /\ b > 0 THEN a > I32_MAX \div b
    ELSE IF a > 0 /\ b < 0 THEN b < (I32_MIN + a - 1) \div a
    ELSE IF a < 0 /\ b > 0 THEN a < (I32_MIN + b - 1) \div b
    ELSE IF a = I32_MIN \/ b = I32_MIN THEN TRUE
    ELSE (-a) > I32_MAX \div (-b)

\* acc + a * b modulo 2^32 for b >= 0, over the binary digits of b
RECURSIVE wrapping_mul_nat(_, _, _)
wrapping_mul_nat(a, b, acc) ==
    IF b = 0 THEN acc
    ELSE wrapping_mul_nat(wrapping_add(a, a), b \div 2,
                          IF b % 2 = 1 THEN wrapping_add(acc, a) ELSE acc)

\* a * b modulo 2^32; for b < 0, b = (b - I32_MIN) + I32_MIN and
\* a * I32_MIN is I32_MIN for odd a, 0 for even a
wrapping_mul(a, b) ==
    IF b >= 0 THEN wrapping_mul_nat(a, b, 0)
    ELSE wrapping_add(wrapping_mul_nat(a, b - I32_MIN, 0),
                      IF a % 2 = 1 THEN I32_MIN ELSE 0)

\* the i32 quotient a / b, rounded toward zero, for b # 0 and
\* (a, b) # (I32_MIN, -1)
truncating_div(a, b) ==
    IF b > 0
    THEN (a \div b) + (IF a < 0 /\ a % b # 0 THEN 1 ELSE 0)
    ELSE IF b = I32_MIN THEN (IF a = I32_MIN THEN 1 ELSE 0)
    ELSE LET nb == -b
             q == (a \div nb) + (IF a < 0 /\ a % nb # 0 THEN 1 ELSE 0)
         IN  -q

\* evaluate_operator; overflow_checks tells whether the build checks
\* arithmetic overflow (the division overflow panics in every build)
evaluate_operator(a, b, operator, overflow_checks) ==
    IF operator = PLUS
    THEN IF add_overflows(a, b)
         THEN IF overflow_checks THEN EvPanic("attempt to add with overflow")
              ELSE EvOk(wrapping_add(a, b))
         ELSE EvOk(a + b)
    ELSE IF operator = MINUS
    THEN IF sub_overflows(a, b)
         THEN IF overflow_checks THEN EvPanic("attempt to subtract with overflow")
              ELSE EvOk(wrapping_sub(a, b))
         ELSE EvOk(a - b)
    ELSE IF operator = STAR
    THEN IF mul_overflows(a, b)
         THEN IF overflow_checks THEN EvPanic("attempt to multiply with overflow")
              ELSE EvOk(wrapping_mul(a, b))
         ELSE EvOk(a * b)
    ELSE IF operator = SLASH
    THEN IF b = 0 THEN EvErr("Division by zero")
         ELSE IF a = I32_MIN /\ b = -1 THEN EvPanic("attempt to divide with overflow")
         ELSE EvOk(truncating_div(a, b))
    ELSE EvErr("Unsupported operator")

-----------------------------------------------------------------------------
(* evaluator.rs: evaluate_expression, tokenize_expression,                  *)
(* parse_and_evaluate, infix_to_postfix.                                    *)

\* the value of a decimal digit character
digit_value(c) == (CHOOSE k \in 1..Len(DigitSeq) : DigitSeq[k] = c) - 1

\* the digit loop of str::parse::<i32>: a positive number is built by
\* adding digits, a negative one by subtracting them; a step that leaves
\* the i32 range fails
RECURSIVE parse_digits(_, _, _, _)
parse_digits(digits, k, acc, negative) ==
    IF k > Len(digits) THEN [ok |-> TRUE, num |-> acc]
    ELSE LET d == digit_value(digits[k]) IN
         IF negative
         THEN IF acc < (I32_MIN + d + 9) \div 10
              THEN [ok |-> FALSE, num |-> 0]
              ELSE parse_digits(digits, k + 1, acc * 10 - d, negative)
         ELSE IF acc > (I32_MAX - d) \div 10
              THEN [ok |-> FALSE, num |-> 0]
              ELSE parse_digits(digits, k + 1, acc * 10 + d, negative)

\* token.parse::<i32>(): an optional sign, then at least one decimal digit
parse_i32(text) ==
    LET signed == text # <<>> /\ text[1] \in {"+", "-"}
        digits == IF signed THEN Tail(text) ELSE text
    IN  IF digits = <<>> \/ \E k \in 1..Len(digits) : digits[k] \notin Range(DigitSeq)
        THEN [ok |-> FALSE, num |-> 0]
        ELSE parse_digits(digits, 1, 0, text[1] = "-")

\* expression.split_whitespace(): the maximal runs of non-whitespace
RECURSIVE split_whitespace_from(_, _, _, _)
split_whitespace_from(s, i, word, words) ==
    IF i > Len(s)
    THEN IF word = <<>> THEN words ELSE Append(words, word)
    ELSE IF is_whitespace(s[i])
         THEN split_whitespace_from(s, i + 1, <<>>,
                                    IF word = <<>> THEN words ELSE Append(words, word))
         ELSE split_whitespace_from(s, i + 1, Append(word, s[i]), words)

split_whitespace(s) == split_whitespace_from(s, 1, <<>>, <<>>)

\* the closure `precedence` of infix_to_postfix
eval_precedence(op) ==
    IF op \in {PLUS, MINUS} THEN 1
    ELSE IF op \in {STAR, SLASH} THEN 2
    ELSE 0

\* the `while let Some(op) = operators.last()` loop of infix_to_postfix
RECURSIVE eval_pop_higher(_, _, _)
eval_pop_higher(output, operators, t) ==
    IF operators # <<>> /\ eval_precedence(Last(operators)) >= eval_precedence(t)
    THEN eval_pop_higher(Append(output, Last(operators)), Front(operators), t)
    ELSE [output |-> output, operators |-> operators]

\* the final `while let Some(op) = operators.pop()` loop
RECURSIVE eval_pop_all(_, _)
eval_pop_all(output, operators) ==
    IF operators = <<>> THEN output
    ELSE eval_pop_all(Append(output, Last(operators)), Front(operators))

\* the `for token in tokens` loop of infix_to_postfix from token i on
RECURSIVE infix_to_postfix_from(_, _, _, _, _)
infix_to_postfix_from(toks, i, output, operators, expect_operand) ==
    IF i > Len(toks)
    THEN IF expect_operand
         THEN Err("Expression ends with operator", <<>>)
         ELSE Ok(eval_pop_all(output, operators))
    ELSE LET token == toks[i] IN
         IF parse_i32(token).ok
         THEN infix_to_postfix_from(toks, i + 1, Append(output, token), operators, FALSE)
         ELSE IF token \in {PLUS, MINUS, STAR, SLASH}
         THEN IF expect_operand
              THEN Err("Operator without operand", token)
              ELSE LET p == eval_pop_higher(output, operators, token) IN
                   infix_to_postfix_from(toks, i + 1, p.output,
                                         Append(p.operators, token), TRUE)
         ELSE Err("Unsupported token", token)

infix_to_postfix(toks) == infix_to_postfix_from(toks, 1, <<>>, <<>>, TRUE)

\* the `for token in postfix_tokens` loop of parse_and_evaluate from token
\* i on, then the final stack test; a panic of evaluate_operator ends the
\* call
RECURSIVE evaluate_postfix_from(_, _, _, _)
evaluate_postfix_from(postfix_tokens, i, stack, overflow_checks) ==
    IF i > Len(postfix_tokens)
    THEN IF Len(stack) # 1
         THEN EvErr("Malformed expression")
         ELSE EvOk(stack[1])
    ELSE LET token == postfix_tokens[i]
             num == parse_i32(token)
         IN  IF num.ok
             THEN evaluate_postfix_from(postfix_tokens, i + 1,
                                        Append(stack, num.num), overflow_checks)
             ELSE IF Len(stack) < 2
             THEN EvErr("Malformed expression")
             ELSE LET b == stack[Len(stack)]
                      a == stack[Len(stack) - 1]
                      result == evaluate_operator(a, b, token, overflow_checks)
                  IN  IF result.tag # "Ok"
                      THEN result
                      ELSE evaluate_postfix_from(
                               postfix_tokens, i + 1,
                               Append(SubSeq(stack, 1, Len(stack) - 2), result.num),
                               overflow_checks)

parse_and_evaluate(toks, overflow_checks) ==
    IF toks = <<>>
    THEN EvErr("No tokens to evaluate")
    ELSE LET postfix_tokens == infix_to_postfix(toks) IN
         IF is_err(postfix_tokens)
         THEN EvErr(postfix_tokens.err)
         ELSE evaluate_postfix_from(postfix_tokens.val, 1, <<>>, overflow_checks)

\* tokenize_expression: Err for a blank expression, else its words
tokenize_expression(expression) ==
    IF trim(expression) = <<>>
    THEN Err("Expression is empty", <<>>)
    ELSE Ok(split_whitespace(expression))

evaluate_expression(expression, overflow_checks) ==
    IF trim(expression) = <<>>
    THEN EvErr("Expression is empty")
    ELSE LET toks == tokenize_expression(expression) IN
         IF is_err(toks)
         THEN EvErr(toks.err)
         ELSE parse_and_evaluate(toks.val, overflow_checks)

-----------------------------------------------------------------------------
(* The operator specification: one call of evaluate_operator.               *)

OperandSamples ==
    {I32_MIN, I32_MIN + 1, -65536, -46341, -7, -1, 0, 1, 2, 3, 5, 10,
     46341, 65536, I32_MAX - 1, I32_MAX}

OperatorSamples == {PLUS, MINUS, STAR, SLASH, <<"%">>, <<"^">>, tAND}

InitOperator ==
    /\ tokens = <<>>
    /\ line = <<>>
    /\ pe_result = NoResult
    /\ ve_result = NoResult
    /\ cs_result = NoResult
    /\ vs_result = NoResult
    /\ vc_result = NoResult
    /\ tk_result = NoTokens
    /\ sl_result = NoScan
    /\ te_result = NoFlag
    /\ lx = NoLexer
    /\ tl_result = NoTokens
    /\ ev_result = NoOutcome
    /\ eo \in [a : OperandSamples, b : OperandSamples,
               operator : OperatorSamples, result : {NoOutcome}]
    /\ inv = NoInvocations

EvaluateOperator ==
    /\ eo.result = NoOutcome
    /\ \E overflow_checks \in BOOLEAN :
          eo' = [eo EXCEPT !.result =
                    evaluate_operator(eo.a, eo.b, eo.operator, overflow_checks)]
    /\ UNCHANGED <<tokens, line, pe_result, ve_result, cs_result, vs_result,
                   vc_result, tk_result, sl_result, te_result, lx,
                   tl_result, ev_result, inv>>

NextOperator == EvaluateOperator

SpecOperator == InitOperator /\ [][NextOperator]_vars

\* the mathematical result of a op b lies outside the i32 range
OutsideI32(a, b, operator) ==
    \/ operator = PLUS /\ add_overflows(a, b)
    \/ operator = MINUS /\ sub_overflows(a, b)
    \/ operator = STAR /\ mul_overflows(a, b)
    \/ operator = SLASH /\ a = I32_MIN /\ b = -1

\* C30: evaluate_operator returns a value (Ok or Err) for every pair of
\* 32-bit signed operands and every operator string and never aborts; when
\* the mathematical result of a + b, a - b, a * b or a / b lies outside
\* the i32 range (i32::MIN / -1 included) the outcome is an Err, not a
\* panic and not a silently wrapped number.
C30_OverflowIsErr ==
    eo.result # NoOutcome =>
        /\ eo.result.tag \in {"Ok", "Err"}
        /\ OutsideI32(eo.a, eo.b, eo.operator) => eo.result.tag = "Err"

-----------------------------------------------------------------------------
(* The evaluator specification: one expression text, evaluated.             *)

MaxEvalOps == 2

\* the operands of the generated expressions, by position
EvalOperandRows ==
    {<<<<"1","0">>, <<"2">>, <<"3">>, <<"4">>>>,
     <<<<"7">>, <<"0">>, <<"2">>, <<"5">>>>,
     <<<<"2","1","4","7","4","8","3","6","4","7">>, <<"1">>, <<"2">>, <<"3">>>>,
     <<<<"-","7">>, <<"2">>, <<"0">>, <<"3">>>>,
     <<<<"8">>, <<"2">>, <<"2">>, <<"0">>>>}

EvalOperatorTokens == {PLUS, MINUS, STAR, SLASH, <<"^">>}

\* operand (operator operand)^k over one row of operands
EvalTokenSeqs(k) ==
    {[i \in 1..(2 * k + 1) |-> IF i % 2 = 1 THEN row[(i + 1) \div 2] ELSE o[i \div 2]] :
        row \in EvalOperandRows, o \in [1..k -> EvalOperatorTokens]}

\* the words of an expression written out with single spaces
RECURSIVE join_with_spaces(_)
join_with_spaces(words) ==
    IF words = <<>> THEN <<>>
    ELSE IF Len(words) = 1 THEN words[1]
    ELSE words[1] \o <<" ">> \o join_with_spaces(Tail(words))

EvalExamples ==
    {<<>>,
     <<" "," "," ">>,
     <<"3"," ","+">>,
     <<"+"," ","3">>,
     <<"3"," ","3">>,
     <<" "," ","3"," "," "," ","+"," "," "," "," ","4"," ">>,
     <<"1","+","2">>,
     <<"9","9","9","9","9","9","9","9","9","9","9"," ","+"," ","1">>,
     <<"-","2","1","4","7","4","8","3","6","4","8"," ","/"," ","-","1">>,
     <<"2"," ","*"," ">>,
     <<"3"," ","^"," ","5">>,
     <<"3"," ","/"," ","0">>,
     <<"x"," ","+"," ","1">>,
     <<"+","5"," ","-"," ","-","5">>}

EvalInputs ==
    {join_with_spaces(ts) : ts \in UNION {EvalTokenSeqs(k) : k \in 0..MaxEvalOps}}
        \cup EvalExamples

InitEval ==
    /\ tokens = <<>>
    /\ line \in EvalInputs
    /\ pe_result = NoResult
    /\ ve_result = NoResult
    /\ cs_result = NoResult
    /\ vs_result = NoResult
    /\ vc_result = NoResult
    /\ tk_result = NoTokens
    /\ sl_result = NoScan
    /\ te_result = NoFlag
    /\ lx = NoLexer
    /\ tl_result = NoTokens
    /\ ev_result = NoOutcome
    /\ eo = NoCall
    /\ inv = NoInvocations

EvaluateExpression ==
    /\ ev_result = NoOutcome
    /\ \E overflow_checks \in BOOLEAN :
          ev_result' = evaluate_expression(line, overflow_checks)
    /\ UNCHANGED <<tokens, line, pe_result, ve_result, cs_result, vs_result,
                   vc_result, tk_result, sl_result, te_result, lx,
                   tl_result, eo, inv>>

NextEval == EvaluateExpression

SpecEval == InitEval /\ [][NextEval]_vars

ArithOperators == {PLUS, MINUS, STAR, SLASH}

\* integer (operator integer)* over + - * / with operands that fit an i32
IsArithExpr(toks) ==
    /\ Len(toks) % 2 = 1
    /\ \A i \in 1..Len(toks) :
          IF i % 2 = 1 THEN parse_i32(toks[i]).ok ELSE toks[i] \in ArithOperators

\* a op b over the integers: its value, a division by zero, or a result
\* beyond the i32 range
RefApply(a, b, op) ==
    IF op = SLASH /\ b = 0 THEN [kind |-> "div0", num |-> 0]
    ELSE IF OutsideI32(a, b, op) THEN [kind |-> "beyond", num |-> 0]
    ELSE [kind |-> "value",
          num |-> IF op = PLUS THEN a + b
                  ELSE IF op = MINUS THEN a - b
                  ELSE IF op = STAR THEN a * b
                  ELSE truncating_div(a, b)]

\* a product  n1 (*|/) n2 (*|/) ...  applied left to right
RECURSIVE RefTermValue(_)
RefTermValue(s) ==
    IF Len(s) = 1 THEN [kind |-> "value", num |-> parse_i32(s[1]).num]
    ELSE LET l == RefTermValue(SubSeq(s, 1, Len(s) - 2)) IN
         IF l.kind # "value" THEN l
         ELSE RefApply(l.num, parse_i32(s[Len(s)]).num, s[Len(s) - 1])

\* a sum of products, by the grammar
\*   expr ::= term ((+|-) term)*     term ::= integer ((*|/) integer)*
RECURSIVE RefExprValue(_)
RefExprValue(s) ==
    LET adds == {p \in 1..Len(s) : p % 2 = 0 /\ s[p] \in {PLUS, MINUS}} IN
    IF adds = {} THEN RefTermValue(s)
    ELSE LET p == CHOOSE q \in adds : \A r \in adds : r <= q
             l == RefExprValue(SubSeq(s, 1, p - 1))
             t == RefTermValue(SubSeq(s, p + 1, Len(s)))
         IN  IF l.kind # "value" THEN l
             ELSE IF t.kind # "value" THEN t
             ELSE RefApply(l.num, t.num, s[p])

\* C25: evaluate_expression on a whitespace-separated expression of
\* integers and the operators + - * / returns the value obtained with *
\* and / binding tighter than + and - and equal-precedence operators
\* applied left to right (10 + 2 * 3 gives 16), and returns Err, not a
\* value, for an empty expression, a division by zero, an expression that
\* ends with an operator and an unsupported operator token.
C25_EvaluatesWithPrecedence ==
    ev_result # NoOutcome =>
        LET toks == split_whitespace(line) IN
        /\ IsArithExpr(toks) =>
              LET r == RefExprValue(toks) IN
              /\ ev_result.tag \in {"Ok", "Err"}
              /\ r.kind = "value" => ev_result = EvOk(r.num)
              /\ r.kind = "div0" => ev_result.tag = "Err"
              /\ (r.kind = "beyond" /\ Len(toks) = 3) => ev_result.tag # "Ok"
        /\ toks = <<>> => ev_result.tag = "Err"
        /\ (toks # <<>> /\ Last(toks) \in ArithOperators) => ev_result.tag = "Err"
        /\ (\E k \in 1..Len(toks) :
               ~parse_i32(toks[k]).ok /\ toks[k] \notin ArithOperators)
              => ev_result.tag = "Err"

-----------------------------------------------------------------------------
(* Two invocations of the core operations, each run one iteration of its    *)
(* main loop at a time. An invocation holds its input position i, its       *)
(* output so far (out: tokens / output), its buffer or stack (stk:          *)
(* current_token / stack / operators) and, once returned, its result.       *)

\* one iteration of the loop of tokenizer.rs tokenize_pli, or its return
tokenize_pli_iteration(st) ==
    IF st.i > Len(st.line)
    THEN [st EXCEPT !.done = TRUE, !.result = finalize_token(st.stk, st.out)]
    ELSE LET c == st.line[st.i] IN
         IF is_whitespace(c) /\ ~st.in_string
         THEN [st EXCEPT !.i = @ + 1, !.out = finalize_token(st.stk, st.out),
                         !.stk = <<>>]
         ELSE IF c = "'"
         THEN LET r == handle_string_literal(c, st.line, st.i + 1, st.stk, st.out) IN
              [st EXCEPT !.i = r.pos, !.out = r.tokens, !.stk = r.current_token,
                         !.in_string = r.in_string]
         ELSE IF c = "%"
         THEN LET r == handle_directive(c, st.line, st.i + 1, st.stk, st.out) IN
              [st EXCEPT !.i = r.pos, !.out = r.tokens, !.stk = r.current_token]
         ELSE IF c \in {"=", "#", "*", ";"}
         THEN [st EXCEPT !.i = @ + 1,
                         !.out = handle_special_characters(c, st.stk, st.out),
                         !.stk = <<>>]
         ELSE IF is_identifier_char(c)
         THEN [st EXCEPT !.i = @ + 1, !.stk = Append(@, c)]
         ELSE [st EXCEPT !.i = @ + 1,
                         !.out = handle_special_characters(c, st.stk, st.out),
                         !.stk = <<>>]

\* one iteration of the loop of parse_control_structure, or its return
parse_control_structure_iteration(st) ==
    IF st.i > Len(st.toks)
    THEN [st EXCEPT !.done = TRUE,
                    !.result = IF st.stk # <<>> THEN Err("Unclosed DO", <<>>)
                               ELSE Ok(<<>>)]
    ELSE LET t == st.toks[st.i] IN
         IF t = tDO
         THEN [st EXCEPT !.i = @ + 1, !.stk = Append(@, t)]
         ELSE IF t = tEND
         THEN IF end_unmatched(st.stk)
              THEN [st EXCEPT !.done = TRUE, !.result = Err("Unmatched END", <<>>)]
              ELSE [st EXCEPT !.i = @ + 1, !.stk = Front(@)]
         ELSE [st EXCEPT !.i = @ + 1]

\* one iteration of the loop of parse_expression, or its final loop and
\* return
parse_expression_iteration(st) ==
    IF st.i > Len(st.toks)
    THEN [st EXCEPT !.done = TRUE, !.result = pop_remaining(st.out, st.stk)]
    ELSE LET t == st.toks[st.i] IN
         IF all_alphanumeric(t)
         THEN [st EXCEPT !.i = @ + 1, !.out = Append(@, t)]
         ELSE IF t \in precedence_keys
         THEN LET p == pop_higher(st.out, st.stk, t) IN
              [st EXCEPT !.i = @ + 1, !.out = p.output, !.stk = Append(p.operators, t)]
         ELSE IF t = LPAREN
         THEN [st EXCEPT !.i = @ + 1, !.stk = Append(@, t)]
         ELSE IF t = RPAREN
         THEN LET p == pop_to_paren(st.out, st.stk) IN
              [st EXCEPT !.i = @ + 1, !.out = p.output, !.stk = p.operators]
         ELSE [st EXCEPT !.done = TRUE,
                         !.result = Err("Invalid token in expression", t)]

iteration(st) ==
    IF st.op = "tokenize_pli" THEN tokenize_pli_iteration(st)
    ELSE IF st.op = "parse_control_structure" THEN parse_control_structure_iteration(st)
    ELSE parse_expression_iteration(st)

\* a call just entered: empty output, empty buffer or stack
Invocation(op, ln, toks) ==
    [op |-> op, line |-> ln, toks |-> toks, i |-> 1, out |-> <<>>, stk |-> <<>>,
     in_string |-> FALSE, done |-> FALSE, result |-> <<>>, overlapped |-> FALSE]

ConcurrentCalls ==
    {Invocation("tokenize_pli", l, <<>>) :
        l \in {<<"A", "%", "b">>, <<"'", "a", "'", " ", "b">>, <<"b", "=", ";">>}}
    \cup {Invocation("parse_control_structure", <<>>, t) :
        t \in {<<tDO, tX, tEND>>, <<tEND, tDO>>, <<tDO, tDO, tEND>>}}
    \cup {Invocation("parse_expression", <<>>, t) :
        t \in {<<tA, PLUS, tB, STAR, tC>>, <<LPAREN, tA, PLUS, tB>>,
               <<tA, STAR, tB, RPAREN>>}}

InitConcurrent ==
    /\ tokens = <<>>
    /\ line = <<>>
    /\ pe_result = NoResult
    /\ ve_result = NoResult
    /\ cs_result = NoResult
    /\ vs_result = NoResult
    /\ vc_result = NoResult
    /\ tk_result = NoTokens
    /\ sl_result = NoScan
    /\ te_result = NoFlag
    /\ lx = NoLexer
    /\ tl_result = NoTokens
    /\ ev_result = NoOutcome
    /\ eo = NoCall
    /\ inv \in {<<x, y>> : x \in ConcurrentCalls, y \in ConcurrentCalls}
    /\ inv[1].op = inv[2].op =>
          (inv[1].line # inv[2].line \/ inv[1].toks # inv[2].toks)

\* buffers and stacks shared by two calls of the same operation
frame_shared(k) == IF inv[1].op = inv[2].op THEN 1 ELSE k

\* the output, buffer and stacks invocation k works on: its own, declared
\* with `let mut` inside the call
frame_of(k) == k

\* invocation k runs one iteration; overlapped records that the other
\* invocation was in the middle of its run at that moment
StepInvocation(k) ==
    /\ Len(inv) = 2
    /\ ~inv[k].done
    /\ LET other == inv[3 - k]
           frame == inv[frame_of(k)]
           st == [inv[k] EXCEPT !.out = frame.out, !.stk = frame.stk]
           next == iteration(st)
       IN  inv' = [inv EXCEPT ![k] =
                      [next EXCEPT !.overlapped = @ \/ (other.i > 1 /\ ~other.done)]]
    /\ UNCHANGED <<tokens, line, pe_result, ve_result, cs_result, vs_result,
                   vc_result, tk_result, sl_result, te_result, lx,
                   tl_result, ev_result, eo>>

NextConcurrent == StepInvocation(1) \/ StepInvocation(2)

SpecConcurrent == InitConcurrent /\ [][NextConcurrent]_vars

\* what the operation returns for the input when it runs alone
AloneResult(st) ==
    IF st.op = "tokenize_pli" THEN tokenize_pli(st.line)
    ELSE IF st.op = "parse_control_structure" THEN parse_control_structure(st.toks)
    ELSE parse_expression(st.toks)

\* C21: two invocations of the core operations (tokenize_pli,
\* parse_control_structure, parse_expression) that run concurrently on
\* different inputs, their steps interleaved in any order, each return
\* exactly the result they return when run alone.
C21_ConcurrentCallsIndependent ==
    \A k \in 1..Len(inv) :
        inv[k].done => inv[k].result = AloneResult(inv[k])

C21_Witness ==
    /\ Len(inv) = 2
    /\ inv[1].op = "tokenize_pli" /\ inv[1].line = <<"A", "%", "b">>
    /\ inv[2].op = "parse_expression" /\ inv[2].toks = <<tA, PLUS, tB, STAR, tC>>
    /\ inv[1].done /\ inv[1].overlapped
    /\ inv[2].done /\ inv[2].overlapped
    /\ inv[2].result = Ok(<<tA, tB, tC, STAR, PLUS>>)
    /\ Len(inv[1].result) = 1

====
